---- MODULE Spec2Model ----
(***************************************************************************)
(* Model of the puliclient graph builder (Puli/src/puliclient/__init__.py):*)
(* Task / TaskGroup / Graph, HierarchicalDict, GraphDumper and the local   *)
(* runner Graph.execute.                                                   *)
(***************************************************************************)
EXTENDS Integers, Sequences, FiniteSets, TLC

\* ---------------------------------------------------------------- bounds
\* objects that can exist (the root included)
NumNodes == 4
\* nodes the client constructs besides the root
MaxCreate == 2
\* dependency edges in the graph
MaxDeps == 2
\* addTask / addTaskGroup calls
MaxLinks == 3
\* addCommand calls per task
MaxCmds == 1
\* elements of the list passed to addEdges
MaxEdges == 2

\* rows per table without primary key (Rules, Arguments, Dependencies, memberships)
MaxRows == 3

\* the queries of a call that the database may refuse
MaxFail == 2
Nodes == 1..NumNodes

\* ------------------------------------------------------ status constants
BLOCKED == 0
READY == 1
RUNNING == 2
DONE == 3
ERROR == 4
CANCELED == 5
PAUSED == 6

StatusLists == {<<DONE>>, <<ERROR>>}
None == 0
EmptyDict == [x \in {} |-> x]
NoRepr == [root |-> -1, tasks |-> <<>>]
Keys == {"k", "j"}
Vals == {"a", "b"}
KeyError == "KeyError"

VARIABLES
    root,          \* Graph.root
    kind,          \* class of each object: "Task", "TaskGroup", "none" (not constructed)
    tasks,         \* TaskGroup.tasks
    taskGroups,    \* TaskGroup.taskGroups
    dependencies,  \* node.dependencies (dict target -> statusList)
    arguments,     \* node.arguments own map
    argParent,     \* node.arguments.parent (node whose map it is, None if unset)
    decomposer,    \* Task.decomposer is not None
    expander,      \* TaskGroup.expander is not None
    decomposed,    \* Task.decomposed
    expanded,      \* TaskGroup.expanded
    commands,      \* Task.commands (descriptions)
    invoked,       \* number of calls of the node's decomposer / expander
    phase,         \* "build" until the first prepareGraphRepresentation, then "prepared"
    repr,          \* value returned by the last prepareGraphRepresentation
    raised,        \* exception raised by the last call ("none" if it returned)
    cycle,         \* node names listed by the DependencyCycleError message
    got,           \* last HierarchicalDict lookup: <<node, key, result>>
    pc,            \* position of Graph.execute
    executionList, \* execute: executionList
    cursor,        \* execute: position of the readyCommands generator
    counts,        \* execute: numDONE, numERROR, numCANCELED
    nbRuns,        \* execute: number of execNode calls per command
    interrupted,   \* execute: execNode raised GraphExecInterrupt
    ret,           \* execute: returned status
    call,          \* last call on the Graph object or on PuliDB: <<method, argument>>
    mem,           \* dispatcher: the in-memory entities (element key -> object)
    db,            \* dispatcher: the store (table name -> rows)
    toModify,      \* dispatcher: elements modified since the last flush
    tree,          \* dispatcher: the DispatchTree handed to restoreStateFromDb
    classOrder     \* dispatcher: order of the class objects under sort(key=__class__)

builderVars == <<root, kind, tasks, taskGroups, dependencies, arguments, argParent,
                 decomposer, expander, decomposed, expanded, commands, invoked>>
prepVars == <<phase, repr, raised, cycle>>
execVars == <<pc, executionList, cursor, counts, nbRuns, interrupted, ret>>
dbVars == <<mem, db, toModify, tree, classOrder>>
extVars == <<call, dbVars>>
vars == <<builderVars, prepVars, got, execVars, extVars>>

\* ------------------------------------------------------------- helpers
InSeq(x, s) == \E i \in 1..Len(s) : s[i] = x

IndexOf(x, s) == CHOOSE i \in 1..Len(s) : s[i] = x /\ \A j \in 1..(i-1) : s[j] # x

\* iteration orders of a python dict keyed by the node objects S
Orders(S) == {o \in [1..Cardinality(S) -> S] :
                 \A i, j \in 1..Cardinality(S) : o[i] = o[j] => i = j}

Created(g) == {n \in Nodes : g.kind[n] # "none"}

\* the objects used as keys of some dependencies dict
DepKeys(g) == UNION {DOMAIN g.dependencies[n] : n \in Nodes}

\* dict.items() / iteration over the keys of d in the order ord
Items(d, ord) == SelectSeq(ord, LAMBDA k : k \in DOMAIN d)

\* the builder objects as one value
G == [root |-> root, kind |-> kind, tasks |-> tasks, taskGroups |-> taskGroups,
      dependencies |-> dependencies, arguments |-> arguments, argParent |-> argParent,
      decomposer |-> decomposer, expander |-> expander, decomposed |-> decomposed,
      expanded |-> expanded, commands |-> commands, invoked |-> invoked]

NbDeps == LET RECURSIVE Sum(_)
              Sum(S) == IF S = {} THEN 0
                        ELSE LET n == CHOOSE x \in S : TRUE
                             IN Cardinality(DOMAIN dependencies[n]) + Sum(S \ {n})
          IN Sum(Nodes)

NbLinks == LET RECURSIVE Sum(_)
               Sum(S) == IF S = {} THEN 0
                         ELSE LET n == CHOOSE x \in S : TRUE
                              IN Len(tasks[n]) + Len(taskGroups[n]) + Sum(S \ {n})
           IN Sum(Nodes)

Children(g, n) == {g.tasks[n][i] : i \in 1..Len(g.tasks[n])}
                    \cup {g.taskGroups[n][i] : i \in 1..Len(g.taskGroups[n])}

\* nodes contained in n at any depth (n excluded unless the containment is cyclic)
RECURSIVE Descendants(_, _, _)
Descendants(g, n, seen) ==
    LET new == Children(g, n) \ seen
        RECURSIVE Acc(_, _)
        Acc(S, acc) == IF S = {} THEN acc
                       ELSE LET c == CHOOSE x \in S : TRUE
                            IN Acc(S \ {c}, acc \cup Descendants(g, c, acc \cup {c}))
    IN Acc(new, seen \cup new)

\* ------------------------------------------------------ HierarchicalDict
RECURSIVE getitem(_, _, _, _)
getitem(args, par, n, name) ==
    IF name \in DOMAIN args[n] THEN args[n][name]
    ELSE IF par[n] # None /\ DOMAIN args[par[n]] # {}
         THEN getitem(args, par, par[n], name)
         ELSE KeyError

\* ------------------------------------------------- Task / TaskGroup ops
FreshNode(g) == IF \E n \in Nodes : g.kind[n] = "none"
                THEN CHOOSE n \in Nodes : g.kind[n] = "none" /\ \A m \in Nodes : m < n => g.kind[m] # "none"
                ELSE None

\* jobs.DefaultTaskDecomposer: adds one command built from the task arguments
DefaultTaskDecomposer(g, t) ==
    [g EXCEPT !.commands[t] = Append(@, "decomposer")]

\* a user expander: synthesizes one new Task under the group with addNewTask
TaskExpander(g, n) ==
    LET f == FreshNode(g)
    IN IF f = None THEN g
       ELSE [g EXCEPT !.kind[f] = "Task", !.decomposer[f] = TRUE,
                      !.tasks[n] = Append(@, f), !.argParent[f] = n]

\* decompose without the `decomposed` test
decomposeAgain(g, t) ==
    LET g1 == IF g.decomposer[t]
              THEN [DefaultTaskDecomposer(g, t) EXCEPT !.invoked[t] = @ + 1]
              ELSE g
    IN [g1 EXCEPT !.decomposed[t] = TRUE]

\* decompose that leaves the `decomposed` flag unset
decomposeNoFlag(g, t) ==
    IF ~g.decomposed[t] /\ g.decomposer[t]
    THEN [DefaultTaskDecomposer(g, t) EXCEPT !.invoked[t] = @ + 1]
    ELSE g

decompose(g, t) ==
    IF ~g.decomposed[t]
    THEN LET g1 == IF g.decomposer[t]
                   THEN [DefaultTaskDecomposer(g, t) EXCEPT !.invoked[t] = @ + 1]
                   ELSE g
         IN [g1 EXCEPT !.decomposed[t] = TRUE]
    ELSE g

RECURSIVE expand(_, _), expandTasks(_, _), expandGroups(_, _)
expand(g, n) ==
    LET g1 == IF ~g.expanded[n]
              THEN LET g0 == IF g.expander[n]
                             THEN [TaskExpander(g, n) EXCEPT !.invoked[n] = @ + 1]
                             ELSE g
                   IN [g0 EXCEPT !.expanded[n] = TRUE]
              ELSE g
        g2 == expandTasks(g1, g1.tasks[n])
    IN expandGroups(g2, g2.taskGroups[n])

expandTasks(g, ts) ==
    IF ts = <<>> THEN g ELSE expandTasks(decompose(g, Head(ts)), Tail(ts))

expandGroups(g, gs) ==
    IF gs = <<>> THEN g ELSE expandGroups(expand(g, Head(gs)), Tail(gs))

\* ------------------------------------------------------------ GraphDumper
RECURSIVE hasCycles(_, _, _, _), hasCyclesDeps(_, _, _, _)
\* the cycle as a list of nodes, <<>> for False
\* the loop over node.dependencies if a dependency stayed in visited_nodes after the
\* call on it returned
RECURSIVE hasCyclesDepsKeepVisited(_, _, _, _)
hasCyclesDepsKeepVisited(g, ord, deps, visited_nodes) ==
    IF deps = <<>> THEN <<>>
    ELSE LET dep == Head(deps)
         IN IF InSeq(dep, visited_nodes) THEN Append(visited_nodes, dep)
            ELSE LET c == hasCycles(g, ord, dep, visited_nodes)
                 IN IF c # <<>> THEN c
                    ELSE hasCyclesDepsKeepVisited(g, ord, Tail(deps),
                                                  Append(visited_nodes, dep))

hasCycles(g, ord, node, visited_nodes) ==
    hasCyclesDeps(g, ord, Items(g.dependencies[node], ord), Append(visited_nodes, node))

hasCyclesDeps(g, ord, deps, visited_nodes) ==
    IF deps = <<>> THEN <<>>
    ELSE LET dep == Head(deps)
         IN IF InSeq(dep, visited_nodes) THEN Append(visited_nodes, dep)
            ELSE LET c == hasCycles(g, ord, dep, visited_nodes)
                 IN IF c # <<>> THEN c
                    ELSE hasCyclesDeps(g, ord, Tail(deps), visited_nodes)

\* the list `tasks` built by the first loop of dumpGraph
RECURSIVE reachableTasks(_, _, _)
reachableTasks(g, ts, unvisited_tasks) ==
    IF unvisited_tasks = <<>> THEN ts
    ELSE LET task == unvisited_tasks[Len(unvisited_tasks)]
             rest == SubSeq(unvisited_tasks, 1, Len(unvisited_tasks) - 1)
             ts2 == Append(ts, task)
             more == IF g.kind[task] = "TaskGroup"
                     THEN SelectSeq(g.taskGroups[task], LAMBDA t : ~InSeq(t, ts2))
                            \o SelectSeq(g.tasks[task], LAMBDA t : ~InSeq(t, ts2))
                     ELSE <<>>
         IN reachableTasks(g, ts2, rest \o more)

\* checkCycles run on the root only
checkCyclesRootOnly(g, ord, ts) == hasCycles(g, ord, Head(ts), <<>>)

\* first cycle reported by the checkCycles loop of dumpGraph, <<>> if none
RECURSIVE checkCycles(_, _, _)
checkCycles(g, ord, ts) ==
    IF ts = <<>> THEN <<>>
    ELSE LET c == hasCycles(g, ord, Head(ts), <<>>)
         IN IF c # <<>> THEN c ELSE checkCycles(g, ord, Tail(ts))

\* GraphDumper.tasks after addTask(graph.root): the nodes in index order
RECURSIVE addTask(_, _, _, _), addRefs(_, _, _, _)
getTaskIndex(g, ord, acc, task) ==
    IF InSeq(task, acc) THEN acc ELSE addTask(g, ord, acc, task)

addTask(g, ord, acc, task) ==
    addRefs(g, ord, Append(acc, task),
            Items(g.dependencies[task], ord)
              \o (IF g.kind[task] = "TaskGroup" THEN g.tasks[task] \o g.taskGroups[task] ELSE <<>>))

addRefs(g, ord, acc, refs) ==
    IF refs = <<>> THEN acc
    ELSE addRefs(g, ord, getTaskIndex(g, ord, acc, Head(refs)), Tail(refs))

\* an index counted from one
taskMemFromOne(dtasks, task) == IndexOf(task, dtasks)

\* taskMem[task]
taskMem(dtasks, task) == IndexOf(task, dtasks) - 1

depsRepresentation(g, ord, dtasks, task) ==
    LET ks == Items(g.dependencies[task], ord)
    IN [i \in 1..Len(ks) |-> <<taskMem(dtasks, ks[i]), g.dependencies[task][ks[i]]>>]

computeTaskRepresentation(g, ord, dtasks, task) ==
    [name |-> task, type |-> "Task",
     dependencies |-> depsRepresentation(g, ord, dtasks, task),
     commands |-> g.commands[task]]

computeTaskGroupRepresentation(g, ord, dtasks, taskGroup) ==
    LET ch == g.tasks[taskGroup] \o g.taskGroups[taskGroup]
    IN [type |-> "TaskGroup", name |-> taskGroup,
        dependencies |-> depsRepresentation(g, ord, dtasks, taskGroup),
        tasks |-> [i \in 1..Len(ch) |-> taskMem(dtasks, ch[i])]]

\* the representation built by dumpGraph once the cycle check has passed
dumpGraph(g, ord) ==
    LET dtasks == addTask(g, ord, <<>>, g.root)
    IN [root |-> taskMem(dtasks, g.root),
        tasks |-> [i \in 1..Len(dtasks) |->
                     IF g.kind[dtasks[i]] = "Task"
                     THEN computeTaskRepresentation(g, ord, dtasks, dtasks[i])
                     ELSE computeTaskGroupRepresentation(g, ord, dtasks, dtasks[i])]]

\* ------------------------------------- hierarchical dependency lowering
RECURSIVE addDependencyToChildrenOf(_, _, _, _), addDependencyToEach(_, _, _, _)
addDependencyToChildrenOf(pDependencySrcId, pStatusList, pDependingNode, T) ==
    LET currNode == T[pDependingNode + 1]
    IN IF "tasks" \in DOMAIN currNode
       THEN addDependencyToEach(pDependencySrcId, pStatusList, currNode.tasks, T)
       ELSE [T EXCEPT ![pDependingNode + 1].dependencies =
                            Append(@, <<pDependencySrcId, pStatusList>>)]

\* the loop over the children left after the first child
addDependencyToFirst(pDependencySrcId, pStatusList, childIds, T) ==
    IF childIds = <<>> THEN T
    ELSE addDependencyToChildrenOf(pDependencySrcId, pStatusList, Head(childIds), T)

addDependencyToEach(pDependencySrcId, pStatusList, childIds, T) ==
    IF childIds = <<>> THEN T
    ELSE addDependencyToEach(pDependencySrcId, pStatusList, Tail(childIds),
             addDependencyToChildrenOf(pDependencySrcId, pStatusList, Head(childIds), T))

RECURSIVE lowerDeps(_, _, _), lowerNodes(_, _)
lowerDeps(deps, i, T) ==
    IF deps = <<>> THEN T
    ELSE lowerDeps(Tail(deps), i, addDependencyToChildrenOf(Head(deps)[1], Head(deps)[2], i, T))

\* the loop of prepareGraphRepresentation over enumerate(repr["tasks"])
lowerNodes(i, T) ==
    IF i >= Len(T) THEN T
    ELSE LET node == T[i + 1]
         IN IF node.type = "TaskGroup" /\ Len(node.dependencies) # 0
            THEN lowerNodes(i + 1, lowerDeps(node.dependencies, i, T))
            ELSE lowerNodes(i + 1, T)

\* result of prepareGraphRepresentation on the builder objects g:
\* the objects after expansion, the cycle found (<<>> if none) and the representation
prepareGraphRepresentation(g, ord) ==
    LET g1 == IF g.kind[g.root] = "TaskGroup" THEN expand(g, g.root) ELSE decompose(g, g.root)
        cyc == checkCycles(g1, ord, reachableTasks(g1, <<g1.root>>, <<g1.root>>))
        dumped == dumpGraph(g1, ord)
    IN [graph |-> g1, cycle |-> cyc,
        repr |-> IF cyc # <<>> THEN NoRepr
                 ELSE [dumped EXCEPT !.tasks = lowerNodes(0, dumped.tasks)]]

SetGraph(g) ==
    /\ root' = g.root
    /\ kind' = g.kind
    /\ tasks' = g.tasks
    /\ taskGroups' = g.taskGroups
    /\ dependencies' = g.dependencies
    /\ arguments' = g.arguments
    /\ argParent' = g.argParent
    /\ decomposer' = g.decomposer
    /\ expander' = g.expander
    /\ decomposed' = g.decomposed
    /\ expanded' = g.expanded
    /\ commands' = g.commands
    /\ invoked' = g.invoked

\* ---------------------------------------------------------- builder spec
EmptyGraph(rootKind) ==
    [root |-> 1,
     kind |-> [n \in Nodes |-> IF n = 1 THEN rootKind ELSE "none"],
     tasks |-> [n \in Nodes |-> <<>>],
     taskGroups |-> [n \in Nodes |-> <<>>],
     dependencies |-> [n \in Nodes |-> EmptyDict],
     arguments |-> [n \in Nodes |-> EmptyDict],
     argParent |-> [n \in Nodes |-> None],
     decomposer |-> [n \in Nodes |-> rootKind = "Task" /\ n = 1],
     expander |-> [n \in Nodes |-> FALSE],
     decomposed |-> [n \in Nodes |-> FALSE],
     expanded |-> [n \in Nodes |-> FALSE],
     commands |-> [n \in Nodes |-> <<>>],
     invoked |-> [n \in Nodes |-> 0]]

IdleRest ==
    /\ phase = "build"
    /\ repr = NoRepr
    /\ raised = "none"
    /\ cycle = <<>>
    /\ got = <<>>
    /\ call = <<>>
    /\ pc = "idle"
    /\ executionList = <<>>
    /\ cursor = 0
    /\ counts = [numDONE |-> 0, numERROR |-> 0, numCANCELED |-> 0]
    /\ nbRuns = <<>>
    /\ interrupted = FALSE
    /\ ret = None
    /\ mem = <<>>
    /\ db = <<>>
    /\ toModify = {}
    /\ tree = <<>>
    /\ classOrder = <<>>

\* Graph(name) with the default TaskGroup root, or Graph(name, root=Task(...))
Init ==
    /\ \E rk \in {"TaskGroup", "Task"} :
          /\ root = 1
          /\ kind = EmptyGraph(rk).kind
          /\ decomposer = EmptyGraph(rk).decomposer
    /\ tasks = [n \in Nodes |-> <<>>]
    /\ taskGroups = [n \in Nodes |-> <<>>]
    /\ dependencies = [n \in Nodes |-> EmptyDict]
    /\ arguments = [n \in Nodes |-> EmptyDict]
    /\ argParent = [n \in Nodes |-> None]
    /\ expander = [n \in Nodes |-> FALSE]
    /\ decomposed = [n \in Nodes |-> FALSE]
    /\ expanded = [n \in Nodes |-> FALSE]
    /\ commands = [n \in Nodes |-> <<>>]
    /\ invoked = [n \in Nodes |-> 0]
    /\ IdleRest

\* Task(name, arguments, decomposer=...)
NewTask(hasDecomposer) ==
    /\ phase = "build"
    /\ FreshNode(G) # None
    /\ Cardinality(Created(G)) <= MaxCreate
    /\ kind' = [kind EXCEPT ![FreshNode(G)] = "Task"]
    /\ decomposer' = [decomposer EXCEPT ![FreshNode(G)] = hasDecomposer]
    /\ UNCHANGED <<root, tasks, taskGroups, dependencies, arguments, argParent, expander,
                   decomposed, expanded, commands, invoked, prepVars, got, extVars, execVars>>

\* TaskGroup(name, expander=...)
NewTaskGroup(hasExpander) ==
    /\ phase = "build"
    /\ FreshNode(G) # None
    /\ Cardinality(Created(G)) <= MaxCreate
    /\ kind' = [kind EXCEPT ![FreshNode(G)] = "TaskGroup"]
    /\ expander' = [expander EXCEPT ![FreshNode(G)] = hasExpander]
    /\ UNCHANGED <<root, tasks, taskGroups, dependencies, arguments, argParent, decomposer,
                   decomposed, expanded, commands, invoked, prepVars, got, extVars, execVars>>

\* TaskGroup.addNewTask(name, arguments, decomposer=...)
AddNewTask(g, hasDecomposer) ==
    /\ phase = "build"
    /\ kind[g] = "TaskGroup"
    /\ FreshNode(G) # None
    /\ Cardinality(Created(G)) <= MaxCreate
    /\ kind' = [kind EXCEPT ![FreshNode(G)] = "Task"]
    /\ decomposer' = [decomposer EXCEPT ![FreshNode(G)] = hasDecomposer]
    /\ tasks' = [tasks EXCEPT ![g] = Append(@, FreshNode(G))]
    /\ argParent' = [argParent EXCEPT ![FreshNode(G)] = g]
    /\ UNCHANGED <<root, taskGroups, dependencies, arguments, expander,
                   decomposed, expanded, commands, invoked, prepVars, got, extVars, execVars>>

\* TaskGroup.addNewTaskGroup(name, expander=...)
AddNewTaskGroup(g, hasExpander) ==
    /\ phase = "build"
    /\ kind[g] = "TaskGroup"
    /\ FreshNode(G) # None
    /\ Cardinality(Created(G)) <= MaxCreate
    /\ kind' = [kind EXCEPT ![FreshNode(G)] = "TaskGroup"]
    /\ expander' = [expander EXCEPT ![FreshNode(G)] = hasExpander]
    /\ taskGroups' = [taskGroups EXCEPT ![g] = Append(@, FreshNode(G))]
    /\ argParent' = [argParent EXCEPT ![FreshNode(G)] = g]
    /\ UNCHANGED <<root, tasks, dependencies, arguments, decomposer,
                   decomposed, expanded, commands, invoked, prepVars, got, extVars, execVars>>

\* TaskGroup.addTask(task)
AddTask(g, task) ==
    /\ phase = "build"
    /\ kind[g] = "TaskGroup" /\ kind[task] = "Task"
    /\ ~InSeq(task, tasks[g])
    /\ NbLinks < MaxLinks
    /\ tasks' = [tasks EXCEPT ![g] = Append(@, task)]
    /\ argParent' = [argParent EXCEPT ![task] = g]
    /\ UNCHANGED <<root, kind, taskGroups, dependencies, arguments, decomposer, expander,
                   decomposed, expanded, commands, invoked, prepVars, got, extVars, execVars>>

\* TaskGroup.addTaskGroup(taskGroup); groups that would contain themselves are left out
AddTaskGroup(g, taskGroup) ==
    /\ phase = "build"
    /\ kind[g] = "TaskGroup" /\ kind[taskGroup] = "TaskGroup"
    /\ ~InSeq(taskGroup, taskGroups[g])
    /\ g # taskGroup /\ g \notin Descendants(G, taskGroup, {}) /\ taskGroup # root
    /\ NbLinks < MaxLinks
    /\ taskGroups' = [taskGroups EXCEPT ![g] = Append(@, taskGroup)]
    /\ argParent' = [argParent EXCEPT ![taskGroup] = g]
    /\ UNCHANGED <<root, kind, tasks, dependencies, arguments, decomposer, expander,
                   decomposed, expanded, commands, invoked, prepVars, got, extVars, execVars>>

\* node.dependsOn(task, statusList)
DependsOn(node, task, statusList) ==
    /\ phase = "build"
    /\ kind[node] # "none" /\ kind[task] # "none"
    /\ task \in DOMAIN dependencies[node] \/ NbDeps < MaxDeps
    /\ dependencies' = [dependencies EXCEPT ![node] =
                           [k \in DOMAIN @ \cup {task} |-> IF k = task THEN statusList ELSE @[k]]]
    /\ UNCHANGED <<root, kind, tasks, taskGroups, arguments, argParent, decomposer, expander,
                   decomposed, expanded, commands, invoked, prepVars, got, extVars, execVars>>

\* Task.addCommand(name, arguments)
AddCommand(task) ==
    /\ phase = "build"
    /\ kind[task] = "Task"
    /\ Len(commands[task]) < MaxCmds
    /\ commands' = [commands EXCEPT ![task] = Append(@, "addCommand")]
    /\ UNCHANGED <<root, kind, tasks, taskGroups, dependencies, arguments, argParent, decomposer,
                   expander, decomposed, expanded, invoked, prepVars, got, extVars, execVars>>

\* Task.decompose()
Decompose(task) ==
    /\ phase = "build"
    /\ kind[task] = "Task"
    /\ SetGraph(decompose(G, task))
    /\ UNCHANGED <<prepVars, got, extVars, execVars>>

\* Graph.prepareGraphRepresentation()
Prepare ==
    /\ pc = "idle"
    /\ \E ord \in Orders(DepKeys(G)) :
          LET r == prepareGraphRepresentation(G, ord)
          IN /\ SetGraph(r.graph)
             /\ phase' = "prepared"
             /\ repr' = r.repr
             /\ cycle' = r.cycle
             /\ raised' = IF r.cycle # <<>> THEN "DependencyCycleError" ELSE "none"
    /\ UNCHANGED <<got, extVars, execVars>>

\* the graph with its dependencies: construction, attachment, edges, preparation
Next ==
    \/ NewTask(TRUE)
    \/ NewTaskGroup(FALSE)
    \/ \E g, t \in Nodes : AddTask(g, t)
    \/ \E g, t \in Nodes : AddTaskGroup(g, t)
    \/ \E n, t \in Nodes, sl \in StatusLists : DependsOn(n, t, sl)
    \/ Prepare

Spec == Init /\ [][Next]_vars

\* the builder without edges: nodes created under a group, commands, decomposers
\* and expanders
NextBuild ==
    \/ \E g \in Nodes, d \in BOOLEAN : AddNewTask(g, d)
    \/ \E g \in Nodes, e \in BOOLEAN : AddNewTaskGroup(g, e)
    \/ \E t \in Nodes : AddCommand(t)
    \/ \E t \in Nodes : Decompose(t)
    \/ Prepare

SpecBuild == Init /\ [][NextBuild]_vars

\* --------------------------------------------- HierarchicalDict lookups
Dicts == UNION {[D -> Vals] : D \in SUBSET Keys}

\* a root TaskGroup, a TaskGroup and a Task constructed with any arguments, not yet attached
InitDict ==
    /\ root = 1
    /\ kind = [n \in Nodes |-> IF n \in {1, 2} THEN "TaskGroup" ELSE IF n = 3 THEN "Task" ELSE "none"]
    /\ decomposer = [n \in Nodes |-> n = 3]
    /\ tasks = [n \in Nodes |-> <<>>]
    /\ taskGroups = [n \in Nodes |-> <<>>]
    /\ dependencies = [n \in Nodes |-> EmptyDict]
    /\ \E a \in [1..3 -> Dicts] : arguments = [n \in Nodes |-> IF n <= 3 THEN a[n] ELSE EmptyDict]
    /\ argParent = [n \in Nodes |-> None]
    /\ expander = [n \in Nodes |-> FALSE]
    /\ decomposed = [n \in Nodes |-> FALSE]
    /\ expanded = [n \in Nodes |-> FALSE]
    /\ commands = [n \in Nodes |-> <<>>]
    /\ invoked = [n \in Nodes |-> 0]
    /\ IdleRest

\* node.arguments[name]
GetItem(n, name) ==
    /\ kind[n] # "none"
    /\ got' = <<n, name, getitem(arguments, argParent, n, name)>>
    /\ UNCHANGED <<builderVars, prepVars, execVars, extVars>>

NextDict ==
    \/ \E g, t \in Nodes : AddTask(g, t)
    \/ \E g, t \in Nodes : AddTaskGroup(g, t)
    \/ \E n \in Nodes, name \in Keys : GetItem(n, name)

SpecDict == InitDict /\ [][NextDict]_vars

\* ------------------------------------------------- graphs for the cycle check
\* the dependency relations between the nodes, without a node that names itself
DepRelations == {d \in [Nodes -> SUBSET Nodes] : \A n \in Nodes : n \notin d[n]}

\* a graph with root TaskGroup 1 holding Tasks 2..NumNodes, after any dependsOn calls
InitCycles ==
    /\ root = 1
    /\ kind = [n \in Nodes |-> IF n = 1 THEN "TaskGroup" ELSE "Task"]
    /\ tasks = [n \in Nodes |-> IF n = 1 THEN [i \in 1..(NumNodes - 1) |-> i + 1] ELSE <<>>]
    /\ taskGroups = [n \in Nodes |-> <<>>]
    /\ argParent = [n \in Nodes |-> IF n = 1 THEN None ELSE 1]
    /\ decomposer = [n \in Nodes |-> kind[n] = "Task"]
    /\ \E d \in DepRelations :
          dependencies = [n \in Nodes |-> [t \in d[n] |-> <<DONE>>]]
    /\ arguments = [n \in Nodes |-> EmptyDict]
    /\ expander = [n \in Nodes |-> FALSE]
    /\ decomposed = [n \in Nodes |-> FALSE]
    /\ expanded = [n \in Nodes |-> FALSE]
    /\ commands = [n \in Nodes |-> <<>>]
    /\ invoked = [n \in Nodes |-> 0]
    /\ IdleRest

NextCycles == Prepare

SpecCycles == InitCycles /\ [][NextCycles]_vars

\* ---------------------------------------------------------- Graph.execute
\* final states a CommandWatcher can report (CMD_RUNNING stands for any state
\* that is none of the four the runner expects)
CmdResults == {"CMD_DONE", "CMD_ERROR", "CMD_TIMEOUT", "CMD_CANCELED", "CMD_RUNNING"}

\* the loop over repr["tasks"] that fills executionList
RECURSIVE buildExecutionList(_, _, _, _, _)
buildExecutionList(T, i, taskId, commandId, acc) ==
    IF i > Len(T) THEN acc
    ELSE LET node == T[i]
         IN IF node.type = "Task"
            THEN LET cmds == [k \in 1..Len(node.commands) |->
                                [execid |-> commandId + k - 1,
                                 taskid |-> taskId,
                                 description |-> node.commands[k],
                                 status |-> IF 0 < Len(node.dependencies) THEN BLOCKED ELSE READY,
                                 dependencies |-> node.dependencies]]
                 IN buildExecutionList(T, i + 1, taskId + 1, commandId + Len(node.commands),
                                       acc \o cmds)
            ELSE buildExecutionList(T, i + 1, taskId, commandId, acc)

\* the inner loop if a promotion were not counted in nbReadyAfterCheck
RECURSIVE scanTargetsNoCount(_, _, _, _, _, _)
scanTargetsNoCount(L, i, targetId, statuses, j, nb) ==
    IF j > Len(L) THEN [list |-> L, nb |-> nb]
    ELSE IF L[j].taskid = targetId /\ InSeq(L[j].status, statuses)
         THEN scanTargetsNoCount([L EXCEPT ![i].status = READY], i, targetId, statuses, j + 1, nb)
         ELSE scanTargetsNoCount(L, i, targetId, statuses, j + 1, nb)

\* the inner loop "for node in executionList" of the dependency check of command i
RECURSIVE scanTargets(_, _, _, _, _, _)
scanTargets(L, i, targetId, statuses, j, nb) ==
    IF j > Len(L) THEN [list |-> L, nb |-> nb]
    ELSE IF L[j].taskid = targetId /\ InSeq(L[j].status, statuses)
         THEN scanTargets([L EXCEPT ![i].status = READY], i, targetId, statuses, j + 1, nb + 1)
         ELSE scanTargets(L, i, targetId, statuses, j + 1, nb)

\* the dependency check if it looked at every command that has dependencies, whatever
\* its status
RECURSIVE checkDependenciesAnyStatus(_, _, _)
checkDependenciesAnyStatus(L, i, nb) ==
    IF i > Len(L) THEN [list |-> L, nb |-> nb]
    ELSE IF L[i].dependencies = <<>> THEN checkDependenciesAnyStatus(L, i + 1, nb)
         ELSE LET r == scanTargets(L, i, L[i].dependencies[1][1], L[i].dependencies[1][2], 1, nb)
              IN checkDependenciesAnyStatus(r.list, i + 1, r.nb)

\* the loop over blockedCommands: the list after the check and nbReadyAfterCheck
RECURSIVE checkDependencies(_, _, _)
checkDependencies(L, i, nb) ==
    IF i > Len(L) THEN [list |-> L, nb |-> nb]
    ELSE IF L[i].status # BLOCKED THEN checkDependencies(L, i + 1, nb)
         ELSE LET r == scanTargets(L, i, L[i].dependencies[1][1], L[i].dependencies[1][2], 1, nb)
              IN checkDependencies(r.list, i + 1, r.nb)

\* the command the readyCommands generator yields next, 0 when it is exhausted
NextReady ==
    IF \E i \in (cursor + 1)..Len(executionList) : executionList[i].status = READY
    THEN CHOOSE i \in (cursor + 1)..Len(executionList) :
            /\ executionList[i].status = READY
            /\ \A j \in (cursor + 1)..(i - 1) : executionList[j].status # READY
    ELSE 0

\* execute(): prepare the graph and fill executionList
Execute ==
    /\ pc = "idle"
    /\ \E ord \in Orders(DepKeys(G)) :
          LET r == prepareGraphRepresentation(G, ord)
          IN /\ SetGraph(r.graph)
             /\ phase' = "prepared"
             /\ repr' = r.repr
             /\ cycle' = r.cycle
             /\ IF r.cycle # <<>>
                THEN /\ raised' = "DependencyCycleError"
                     /\ pc' = "raised"
                     /\ UNCHANGED <<executionList, nbRuns>>
                ELSE /\ raised' = "none"
                     /\ pc' = "loop"
                     /\ executionList' = buildExecutionList(r.repr.tasks, 1, 1, 1, <<>>)
                     /\ nbRuns' = [i \in 1..Len(executionList') |-> 0]
    /\ UNCHANGED <<got, extVars, cursor, counts, interrupted, ret>>

\* one turn of "for command in readyCommands": execNode returns result
ExecNode(result) ==
    /\ pc = "loop"
    /\ NextReady # 0
    /\ cursor' = NextReady
    /\ nbRuns' = [nbRuns EXCEPT ![NextReady] = @ + 1]
    /\ IF result \in {"CMD_ERROR", "CMD_TIMEOUT"}
       THEN /\ executionList' = [executionList EXCEPT ![NextReady].status = ERROR]
            /\ counts' = [counts EXCEPT !.numERROR = @ + 1]
            /\ UNCHANGED <<pc, raised>>
       ELSE IF result = "CMD_CANCELED"
       THEN /\ executionList' = [executionList EXCEPT ![NextReady].status = CANCELED]
            /\ counts' = [counts EXCEPT !.numCANCELED = @ + 1]
            /\ UNCHANGED <<pc, raised>>
       ELSE IF result = "CMD_DONE"
       THEN /\ executionList' = [executionList EXCEPT ![NextReady].status = DONE]
            /\ counts' = [counts EXCEPT !.numDONE = @ + 1]
            /\ UNCHANGED <<pc, raised>>
       ELSE \* the warning reads self.finalState, which a Graph does not have
            /\ pc' = "raised"
            /\ raised' = "AttributeError"
            /\ UNCHANGED <<executionList, counts>>
    /\ UNCHANGED <<builderVars, phase, repr, cycle, got, extVars, interrupted, ret>>

\* execNode raises GraphExecInterrupt: execute returns CANCELED
ExecInterrupt ==
    /\ pc = "loop"
    /\ NextReady # 0
    /\ cursor' = NextReady
    /\ nbRuns' = [nbRuns EXCEPT ![NextReady] = @ + 1]
    /\ interrupted' = TRUE
    /\ pc' = "returned"
    /\ ret' = CANCELED
    /\ UNCHANGED <<builderVars, prepVars, got, extVars, executionList, counts>>

\* the dependency check that ends a pass, and the return when it promotes nothing
CheckDependencies ==
    /\ pc = "loop"
    /\ NextReady = 0
    /\ LET r == checkDependencies(executionList, 1, 0)
       IN /\ executionList' = r.list
          /\ IF r.nb = 0
             THEN /\ pc' = "returned"
                  /\ ret' = IF counts.numCANCELED # 0 THEN CANCELED
                            ELSE IF counts.numERROR # 0 THEN ERROR
                            ELSE DONE
                  /\ UNCHANGED cursor
             ELSE /\ cursor' = 0
                  /\ UNCHANGED <<pc, ret>>
    /\ UNCHANGED <<builderVars, prepVars, got, extVars, counts, nbRuns, interrupted>>

\* a graph with root TaskGroup 1, node 2 a Task or a TaskGroup under the root, and
\* Tasks 3..NumNodes each under the root or under TaskGroup 2; edges are added next
InitExec ==
    /\ root = 1
    /\ \E k2 \in {"Task", "TaskGroup"} :
       \E par \in [3..NumNodes -> IF k2 = "TaskGroup" THEN {1, 2} ELSE {1}] :
          /\ kind = [n \in Nodes |-> IF n = 1 THEN "TaskGroup" ELSE IF n = 2 THEN k2 ELSE "Task"]
          /\ tasks = [n \in Nodes |->
                        SelectSeq([i \in 1..NumNodes |-> i],
                                  LAMBDA c : /\ c >= 2
                                             /\ IF c = 2 THEN k2 = "Task" /\ n = 1 ELSE par[c] = n)]
          /\ taskGroups = [n \in Nodes |-> IF n = 1 /\ k2 = "TaskGroup" THEN <<2>> ELSE <<>>]
          /\ argParent = [n \in Nodes |-> IF n = 1 THEN None ELSE IF n = 2 THEN 1 ELSE par[n]]
    /\ decomposer = [n \in Nodes |-> kind[n] = "Task"]
    /\ dependencies = [n \in Nodes |-> EmptyDict]
    /\ arguments = [n \in Nodes |-> EmptyDict]
    /\ expander = [n \in Nodes |-> FALSE]
    /\ decomposed = [n \in Nodes |-> FALSE]
    /\ expanded = [n \in Nodes |-> FALSE]
    /\ commands = [n \in Nodes |-> <<>>]
    /\ invoked = [n \in Nodes |-> 0]
    /\ IdleRest

NextExec ==
    \/ \E n, t \in Nodes, sl \in StatusLists : DependsOn(n, t, sl)
    \/ Execute
    \/ \E result \in CmdResults : ExecNode(result)
    \/ ExecInterrupt
    \/ CheckDependencies

SpecExec == InitExec /\ [][NextExec]_vars

\* each execNode call returns or raises, and the loop goes on to its next statement
SpecExecFair ==
    /\ SpecExec
    /\ WF_vars(\E result \in CmdResults : ExecNode(result))
    /\ WF_vars(CheckDependencies)

\* ------------------------------------------------------------ Graph.add
\* TaskGroup.addTask / TaskGroup.addTaskGroup called on the root by Graph.add
attachToRoot(g, pElem) ==
    IF g.kind[pElem] = "Task"
    THEN IF InSeq(pElem, g.tasks[g.root])
         THEN [graph |-> g, raised |-> "AssertionError"]
         ELSE [graph |-> [g EXCEPT !.tasks[g.root] = Append(@, pElem),
                                   !.argParent[pElem] = g.root],
               raised |-> "none"]
    ELSE IF InSeq(pElem, g.taskGroups[g.root])
         THEN [graph |-> g, raised |-> "AssertionError"]
         ELSE [graph |-> [g EXCEPT !.taskGroups[g.root] = Append(@, pElem),
                                   !.argParent[pElem] = g.root],
               raised |-> "none"]

\* add without the test of the root's class
graphAddNoRootTest(g, pElem) ==
    IF pElem = None THEN [graph |-> g, raised |-> "GraphError"]
    ELSE attachToRoot(g, pElem)

\* Graph.add(pElem); pElem = None stands for an object that is no Task and no TaskGroup
graphAdd(g, pElem) ==
    IF g.kind[g.root] = "Task" THEN [graph |-> g, raised |-> "GraphError"]
    ELSE IF pElem = None THEN [graph |-> g, raised |-> "GraphError"]
    ELSE attachToRoot(g, pElem)

\* Graph.add(pElem); a TaskGroup that would contain itself is left out
GraphAdd(pElem) ==
    /\ phase = "build"
    /\ pElem # None => (kind[pElem] # "none" /\ pElem # root)
    /\ LET r == graphAdd(G, pElem)
       IN /\ SetGraph(r.graph)
          /\ raised' = r.raised
    /\ call' = <<"add", pElem>>
    /\ UNCHANGED <<phase, repr, cycle, got, execVars, dbVars>>

\* Graph.addNewTask(name, ...)
GraphAddNewTask(hasDecomposer) ==
    /\ phase = "build"
    /\ FreshNode(G) # None
    /\ Cardinality(Created(G)) <= MaxCreate
    /\ IF kind[root] = "Task"
       THEN /\ raised' = "GraphError"
            /\ call' = <<"addNewTask", None>>
            /\ UNCHANGED builderVars
       ELSE /\ raised' = "none"
            /\ call' = <<"addNewTask", FreshNode(G)>>
            /\ kind' = [kind EXCEPT ![FreshNode(G)] = "Task"]
            /\ decomposer' = [decomposer EXCEPT ![FreshNode(G)] = hasDecomposer]
            /\ tasks' = [tasks EXCEPT ![root] = Append(@, FreshNode(G))]
            /\ argParent' = [argParent EXCEPT ![FreshNode(G)] = root]
            /\ UNCHANGED <<root, taskGroups, dependencies, arguments, expander,
                           decomposed, expanded, commands, invoked>>
    /\ UNCHANGED <<phase, repr, cycle, got, execVars, dbVars>>

\* Graph.addNewTaskGroup(name, ...)
GraphAddNewTaskGroup(hasExpander) ==
    /\ phase = "build"
    /\ FreshNode(G) # None
    /\ Cardinality(Created(G)) <= MaxCreate
    /\ IF kind[root] = "Task"
       THEN /\ raised' = "GraphError"
            /\ call' = <<"addNewTaskGroup", None>>
            /\ UNCHANGED builderVars
       ELSE /\ raised' = "none"
            /\ call' = <<"addNewTaskGroup", FreshNode(G)>>
            /\ kind' = [kind EXCEPT ![FreshNode(G)] = "TaskGroup"]
            /\ expander' = [expander EXCEPT ![FreshNode(G)] = hasExpander]
            /\ taskGroups' = [taskGroups EXCEPT ![root] = Append(@, FreshNode(G))]
            /\ argParent' = [argParent EXCEPT ![FreshNode(G)] = root]
            /\ UNCHANGED <<root, tasks, dependencies, arguments, decomposer,
                           decomposed, expanded, commands, invoked>>
    /\ UNCHANGED <<phase, repr, cycle, got, execVars, dbVars>>

\* the methods of the Graph object that attach nodes, with nodes constructed apart
NextGraph ==
    \/ \E d \in BOOLEAN : NewTask(d)
    \/ \E e \in BOOLEAN : NewTaskGroup(e)
    \/ \E g, t \in Nodes : AddTask(g, t)
    \/ \E g, t \in Nodes : AddTaskGroup(g, t)
    \/ \E pElem \in Nodes \cup {None} : GraphAdd(pElem)
    \/ \E d \in BOOLEAN : GraphAddNewTask(d)
    \/ \E e \in BOOLEAN : GraphAddNewTaskGroup(e)

SpecGraph == Init /\ [][NextGraph]_vars

\* -------------------------------------------------------- Graph.addEdges
\* third components of an edge: a list, a set, or another object (a string)
ThirdParts == {[type |-> "list", val |-> <<ERROR>>],
               [type |-> "set", val |-> <<ERROR>>],
               [type |-> "str", val |-> <<>>]}

\* the tuples a caller can pass as one edge between the nodes of S, by length
EdgeElems(S) ==
    {[len |-> 1], [len |-> 4]}
      \cup {[len |-> 2, src |-> a, dst |-> b] : a \in S, b \in S}
      \cup {[len |-> 3, src |-> x[1], dst |-> x[2], third |-> x[3]] : x \in S \X S \X ThirdParts}

EdgeLists(S) == UNION {[1..k -> EdgeElems(S)] : k \in 0..MaxEdges}

\* one turn of the loop with the status list of the edge ignored
addEdgeDefaultStatus(deps, edge) ==
    IF edge.len \notin {2, 3} THEN [dependencies |-> deps, raised |-> "ConnectionError"]
    ELSE IF edge.len = 3 /\ edge.third.type # "list"
    THEN [dependencies |-> deps, raised |-> "ConnectionError"]
    ELSE [dependencies |->
             [deps EXCEPT ![edge.dst] =
                 [k \in DOMAIN @ \cup {edge.src} |-> IF k = edge.src THEN <<DONE>> ELSE @[k]]],
          raised |-> "none"]

\* one turn of the loop of addEdges
addEdge(deps, edge) ==
    IF edge.len \notin {2, 3} THEN [dependencies |-> deps, raised |-> "ConnectionError"]
    ELSE IF edge.len = 3 /\ edge.third.type # "list"
    THEN [dependencies |-> deps, raised |-> "ConnectionError"]
    ELSE LET statusList == IF edge.len = 2 THEN <<DONE>> ELSE edge.third.val
         IN [dependencies |->
                [deps EXCEPT ![edge.dst] =
                    [k \in DOMAIN @ \cup {edge.src} |-> IF k = edge.src THEN statusList ELSE @[k]]],
             raised |-> "none"]

\* the loop over enumerate(pEdgeList): the edges made before a malformed element stay
RECURSIVE addEdges(_, _)
addEdges(deps, pEdgeList) ==
    IF pEdgeList = <<>> THEN [dependencies |-> deps, raised |-> "none"]
    ELSE LET r == addEdge(deps, Head(pEdgeList))
         IN IF r.raised # "none" THEN r ELSE addEdges(r.dependencies, Tail(pEdgeList))

\* Graph.addEdges(pEdgeList), called once on a graph that may already have edges
AddEdges(pEdgeList) ==
    /\ phase = "build"
    /\ call = <<>>
    /\ LET r == addEdges(dependencies, pEdgeList)
       IN /\ dependencies' = r.dependencies
          /\ raised' = r.raised
    /\ call' = <<"addEdges", pEdgeList>>
    /\ UNCHANGED <<root, kind, tasks, taskGroups, arguments, argParent, decomposer, expander,
                   decomposed, expanded, commands, invoked, phase, repr, cycle, got, execVars, dbVars>>

\* a root TaskGroup holding Task 2 and TaskGroup 3
InitEdges ==
    /\ root = 1
    /\ kind = [n \in Nodes |-> IF n \in {1, 3} THEN "TaskGroup" ELSE IF n = 2 THEN "Task" ELSE "none"]
    /\ decomposer = [n \in Nodes |-> n = 2]
    /\ tasks = [n \in Nodes |-> IF n = 1 THEN <<2>> ELSE <<>>]
    /\ taskGroups = [n \in Nodes |-> IF n = 1 THEN <<3>> ELSE <<>>]
    /\ dependencies = [n \in Nodes |-> EmptyDict]
    /\ arguments = [n \in Nodes |-> EmptyDict]
    /\ argParent = [n \in Nodes |-> IF n \in {2, 3} THEN 1 ELSE None]
    /\ expander = [n \in Nodes |-> FALSE]
    /\ decomposed = [n \in Nodes |-> FALSE]
    /\ expanded = [n \in Nodes |-> FALSE]
    /\ commands = [n \in Nodes |-> <<>>]
    /\ invoked = [n \in Nodes |-> 0]
    /\ IdleRest

\* edges between the nodes attached below the root: made by dependsOn, then by addEdges
NextEdges ==
    \/ call = <<>> /\ \E n, t \in Descendants(G, root, {}) : DependsOn(n, t, <<DONE>>)
    \/ call = <<>> /\ \E pEdgeList \in EdgeLists(Descendants(G, root, {})) : AddEdges(pEdgeList)

SpecEdges == InitEdges /\ [][NextEdges]_vars

\* ================================================ dispatcher: PuliDB mapper
\* SQL NULL / Python None in a column of integers
NULL == -1

\* str(i) for the integers the model stores as text, and int(s) back
StrOfInt(i) == CASE i = 0 -> "0" [] i = 1 -> "1" [] i = 2 -> "2" [] i = 3 -> "3"
                 [] i = 4 -> "4" [] i = 5 -> "5" [] i = 6 -> "6" [] OTHER -> "?"

IntOfStr(x) == CASE x = "0" -> 0 [] x = "1" -> 1 [] x = "2" -> 2 [] x = "3" -> 3
                 [] x = "4" -> 4 [] x = "5" -> 5 [] x = "6" -> 6 [] OTHER -> NULL

\* ','.join(statusStringList) kept as the parts that split(",") gives back:
\* the empty string splits into one empty part
JoinStatus(statusList) ==
    IF statusList = <<>> THEN <<"">>
    ELSE [i \in 1..Len(statusList) |-> StrOfInt(statusList[i])]

\* str(value) of an argument value: text stays, an integer becomes its decimal text
StrOfValue(v) == IF v.type = "int" THEN [type |-> "str", v |-> StrOfInt(v.v)] ELSE v

\* the entity classes, in the create order the mapper documents
EntityClasses == <<"Pool", "RenderNode", "TaskGroup", "Task", "Command",
                   "FolderNode", "TaskNode", "PoolShare">>

EKeys == {"p", "rn", "ps", "tg", "t", "t2", "c", "f", "tn", "tn2"}

\* a submitted graph in memory: TaskGroup tg (folder node f) holding Task t (task node
\* tn, command c) and Task t2 (task node tn2, which depends on tn); pool p with render
\* node rn and a pool share for f.  tgId / tId / t2Id come from one allocator.
Submitted(tgId, tId, t2Id, tgKey, tKey) ==
    [k \in EKeys |->
       CASE k = "p" -> [class |-> "Pool", id |-> 1, name |-> "p",
                        renderNodes |-> <<"rn">>, poolShares |-> <<"ps">>]
         [] k = "rn" -> [class |-> "RenderNode", id |-> 1, name |-> "rn"]
         [] k = "ps" -> [class |-> "PoolShare", id |-> 1, pool |-> "p", node |-> "f", maxRN |-> 1]
         [] k = "tg" -> [class |-> "TaskGroup", id |-> tgId, name |-> "tg", parent |-> "none",
                         user |-> "u", priority |-> 0, dispatchKey |-> tgKey, maxRN |-> 0,
                         arguments |-> <<<<"j", [type |-> "str", v |-> "a"]>>>>,
                         nodes |-> <<<<"graph_rule", "f">>>>]
         [] k = "t" -> [class |-> "Task", id |-> tId, name |-> "t", parent |-> "tg",
                        user |-> "u", priority |-> 0, dispatchKey |-> tKey, maxRN |-> 0,
                        arguments |-> <<<<"k", [type |-> "str", v |-> "a"]>>>>,
                        nodes |-> <<<<"graph_rule", "tn">>>>]
         [] k = "t2" -> [class |-> "Task", id |-> t2Id, name |-> "t2", parent |-> "tg",
                         user |-> "u", priority |-> 0, dispatchKey |-> 0, maxRN |-> 0,
                         arguments |-> <<>>,
                         nodes |-> <<<<"graph_rule", "tn2">>>>]
         [] k = "c" -> [class |-> "Command", id |-> 1, description |-> "c", task |-> "t",
                        status |-> BLOCKED, completion |-> 0, renderNode |-> "none",
                        message |-> "", arguments |-> <<<<"k", [type |-> "str", v |-> "b"]>>>>]
         [] k = "f" -> [class |-> "FolderNode", id |-> 1, name |-> "tg", parent |-> "root",
                        user |-> "u", priority |-> 0, dispatchKey |-> tgKey, maxRN |-> 0,
                        taskGroup |-> "tg", dependencies |-> <<>>]
         [] k = "tn" -> [class |-> "TaskNode", id |-> 2, name |-> "t", parent |-> "f",
                         user |-> "u", priority |-> 0, dispatchKey |-> tKey, maxRN |-> 0,
                         task |-> "t", dependencies |-> <<>>]
         [] k = "tn2" -> [class |-> "TaskNode", id |-> 3, name |-> "t2", parent |-> "f",
                          user |-> "u", priority |-> 0, dispatchKey |-> 0, maxRN |-> 0,
                          task |-> "t2", dependencies |-> <<<<"tn", <<DONE>>>>>>]]

\* the tables after createTables(): rows by primary key, or in insertion order for
\* the tables whose id the database allocates
EmptyDb ==
    [FolderNodes |-> EmptyDict, TaskNodes |-> EmptyDict, TaskGroups |-> EmptyDict,
     Tasks |-> EmptyDict, Commands |-> EmptyDict, Pools |-> EmptyDict,
     PoolShares |-> EmptyDict, RenderNodes |-> EmptyDict,
     Dependencies |-> <<>>, Rules |-> <<>>, Arguments |-> <<>>, pools_render_nodes |-> <<>>]

KeyedTables == {"FolderNodes", "TaskNodes", "TaskGroups", "Tasks", "Commands", "Pools",
                "PoolShares", "RenderNodes"}

ParentId(m, e) == IF e.parent = "root" THEN 0
                  ELSE IF e.parent = "none" THEN NULL ELSE m[e.parent].id

\* ------------------------------------------------------------ statements
Insert(table, id, values) == [op |-> "Insert", table |-> table, id |-> id, values |-> values]

Update(table, values, whereField, whereValue) ==
    [op |-> "Update", table |-> table, values |-> values,
     whereField |-> whereField, whereValue |-> whereValue]

Delete(table, id) == [op |-> "Delete", table |-> table, id |-> id]

Merge(row, values) == [f \in DOMAIN row |-> IF f \in DOMAIN values THEN values[f] ELSE row[f]]

\* conn.query(statement) in autocommit: the statement is applied at once; an Insert of a
\* primary key the table already holds is refused
Query(d, st) ==
    IF st.op = "Insert"
    THEN IF st.table \in KeyedTables
         THEN IF st.id \in DOMAIN d[st.table]
              THEN [db |-> d, raised |-> "IntegrityError"]
              ELSE [db |-> [d EXCEPT ![st.table] =
                              [i \in DOMAIN @ \cup {st.id} |-> IF i = st.id THEN st.values ELSE @[i]]],
                    raised |-> "none"]
         ELSE [db |-> [d EXCEPT ![st.table] = Append(@, st.values)], raised |-> "none"]
    ELSE IF st.op = "Update"
    THEN IF st.table \in KeyedTables
         THEN [db |-> [d EXCEPT ![st.table] =
                         [i \in DOMAIN @ |-> IF i = st.whereValue THEN Merge(@[i], st.values) ELSE @[i]]],
               raised |-> "none"]
         ELSE [db |-> [d EXCEPT ![st.table] =
                         [i \in DOMAIN @ |-> IF @[i][st.whereField] = st.whereValue
                                             THEN Merge(@[i], st.values) ELSE @[i]]],
               raised |-> "none"]
    ELSE IF st.op = "Delete"
    THEN [db |-> [d EXCEPT ![st.table] = [i \in DOMAIN @ \ {st.id} |-> @[i]]],
          raised |-> "none"]
    ELSE IF st.op = "Get"
    THEN [db |-> d, raised |-> IF st.id \in DOMAIN d[st.table] THEN "none" ELSE "SQLObjectNotFound"]
    ELSE \* RemoveMember: the rows of the join table that pair the two ids
         [db |-> [d EXCEPT !.pools_render_nodes =
                     SelectSeq(@, LAMBDA r : ~(r.pools_id = st.pools_id
                                               /\ r.render_nodes_id = st.render_nodes_id))],
          raised |-> "none"]

\* the statements of one call run in order; statement number failAt (0: none) is the one
\* the database refuses for a reason of its own (connection lost, disk full)
RECURSIVE RunQueries(_, _, _, _)
RunQueries(d, stmts, k, failAt) ==
    IF stmts = <<>> THEN [db |-> d, raised |-> "none"]
    ELSE IF k = failAt THEN [db |-> d, raised |-> "OperationalError"]
    ELSE LET r == Query(d, Head(stmts))
         IN IF r.raised # "none" THEN r ELSE RunQueries(r.db, Tail(stmts), k + 1, failAt)

\* ------------------------------------------------------- createElements
\* the date columns (creationTime, startTime, updateTime, endTime) and the columns that
\* are copied like `name` (runner, environment, tags, ...) are left out of the rows
DependencyInserts(m, e, column) ==
    [i \in 1..Len(e.dependencies) |->
        Insert("Dependencies", NULL,
               [toNodeId |-> m[e.dependencies[i][1]].id,
                statusList |-> JoinStatus(e.dependencies[i][2]),
                taskNodes |-> IF column = "taskNodes" THEN e.id ELSE NULL,
                folderNodes |-> IF column = "folderNodes" THEN e.id ELSE NULL,
                archived |-> FALSE])]

RuleInserts(m, e, column) ==
    [i \in 1..Len(e.nodes) |->
        Insert("Rules", NULL,
               [name |-> e.nodes[i][1],
                taskNodeId |-> IF column = "taskNodeId" THEN m[e.nodes[i][2]].id ELSE NULL,
                folderNodeId |-> IF column = "folderNodeId" THEN m[e.nodes[i][2]].id ELSE NULL])]

\* the Arguments rows if every owner column received the id of the element
ArgumentInsertsAllColumns(e, column) ==
    [i \in 1..Len(e.arguments) |->
        Insert("Arguments", NULL,
               [taskId |-> e.id, taskGroupId |-> e.id, commandId |-> e.id,
                name |-> e.arguments[i][1],
                value |-> StrOfValue(e.arguments[i][2]),
                archived |-> FALSE])]

ArgumentInserts(e, column) ==
    [i \in 1..Len(e.arguments) |->
        Insert("Arguments", NULL,
               [taskId |-> IF column = "taskId" THEN e.id ELSE NULL,
                taskGroupId |-> IF column = "taskGroupId" THEN e.id ELSE NULL,
                commandId |-> IF column = "commandId" THEN e.id ELSE NULL,
                name |-> e.arguments[i][1],
                value |-> StrOfValue(e.arguments[i][2]),
                archived |-> FALSE])]

NodeRow(m, e) ==
    [name |-> e.name, parentId |-> ParentId(m, e), user |-> e.user, priority |-> e.priority,
     dispatchKey |-> e.dispatchKey, maxRN |-> e.maxRN, archived |-> FALSE]

\* the queries of one turn of the loop of createElements
createStatements(m, e) ==
    CASE e.class = "TaskNode" ->
           <<Insert("TaskNodes", e.id,
                    [name |-> e.name, parentId |-> ParentId(m, e), user |-> e.user,
                     priority |-> e.priority, dispatchKey |-> e.dispatchKey, maxRN |-> e.maxRN,
                     taskId |-> m[e.task].id, archived |-> FALSE])>>
             \o DependencyInserts(m, e, "taskNodes")
      [] e.class = "FolderNode" ->
           <<Insert("FolderNodes", e.id,
                    [name |-> e.name, parentId |-> ParentId(m, e), user |-> e.user,
                     priority |-> e.priority, dispatchKey |-> e.dispatchKey, maxRN |-> e.maxRN,
                     taskGroupId |-> IF e.taskGroup # "none" THEN m[e.taskGroup].id ELSE NULL,
                     archived |-> FALSE])>>
             \o DependencyInserts(m, e, "folderNodes")
      [] e.class = "TaskGroup" ->
           RuleInserts(m, e, "folderNodeId")
             \o <<Insert("TaskGroups", e.id, NodeRow(m, e))>>
             \o ArgumentInserts(e, "taskGroupId")
      [] e.class = "Task" ->
           RuleInserts(m, e, "taskNodeId")
             \o <<Insert("Tasks", e.id, NodeRow(m, e))>>
             \o ArgumentInserts(e, "taskId")
      [] e.class = "Command" ->
           <<Insert("Commands", e.id,
                    [description |-> e.description, taskId |-> m[e.task].id,
                     status |-> e.status, completion |-> e.completion,
                     assignedRNId |-> IF e.renderNode # "none" THEN m[e.renderNode].id ELSE NULL,
                     message |-> e.message, archived |-> FALSE])>>
             \o ArgumentInserts(e, "commandId")
      [] e.class = "RenderNode" ->
           <<Insert("RenderNodes", e.id, [name |-> e.name])>>
      [] e.class = "Pool" ->
           <<Insert("Pools", e.id, [name |-> e.name, archived |-> FALSE])>>
             \o [i \in 1..Len(e.renderNodes) |->
                   Insert("pools_render_nodes", NULL,
                          [pools_id |-> e.id, render_nodes_id |-> m[e.renderNodes[i]].id])]
      [] e.class = "PoolShare" ->
           <<Insert("PoolShares", e.id,
                    [poolId |-> m[e.pool].id, nodeId |-> m[e.node].id, maxRN |-> e.maxRN,
                     archived |-> FALSE])>>

\* elements.sort(key=lambda element: element.__class__): a stable sort by the rank of
\* the class object
RECURSIVE SortByClass(_, _, _)
SortByClass(m, elements, order) ==
    IF order = <<>> THEN <<>>
    ELSE SelectSeq(elements, LAMBDA k : m[k].class = Head(order))
           \o SortByClass(m, elements, Tail(order))

\* ------------------------------------------------------- updateElements
\* members of pool id in the join table, in row order
StoredMembers(d, id) ==
    LET rows == SelectSeq(d.pools_render_nodes, LAMBDA r : r.pools_id = id)
    IN [i \in 1..Len(rows) |-> rows[i].render_nodes_id]

\* updateElements if the Pool branch only added the new members
updateStatementsNoRemove(d, m, e) ==
    IF e.class = "Pool" /\ e.id # 0
    THEN LET oldids == StoredMembers(d, e.id)
             newids == [i \in 1..Len(e.renderNodes) |-> m[e.renderNodes[i]].id]
             come == SelectSeq(newids, LAMBDA x : ~InSeq(x, oldids))
         IN <<[op |-> "Get", table |-> "Pools", id |-> e.id]>>
              \o [i \in 1..Len(come) |->
                    Insert("pools_render_nodes", NULL,
                           [pools_id |-> e.id, render_nodes_id |-> come[i]])]
    ELSE <<>>

\* updateElements if the Update of a Command also wrote the archived column
updateStatementsUnarchive(d, m, e) ==
    IF e.class = "Command" /\ e.id # 0
    THEN <<Update("Commands",
                  [status |-> e.status, completion |-> e.completion, archived |-> FALSE],
                  "id", e.id)>>
    ELSE <<>>

\* the queries of one turn of the loop of updateElements on the store d
updateStatements(d, m, e) ==
    CASE e.class = "Command" ->
           IF e.id # 0
           THEN <<Update("Commands",
                         IF e.renderNode # "none"
                         THEN [status |-> e.status, completion |-> e.completion,
                               assignedRNId |-> m[e.renderNode].id]
                         ELSE [status |-> e.status, completion |-> e.completion],
                         "id", e.id)>>
           ELSE <<>>
      [] e.class = "TaskNode" ->
           IF e.id # 0 THEN <<Update("TaskNodes", EmptyDict, "id", e.id)>> ELSE <<>>
      [] e.class = "FolderNode" ->
           IF e.id # 0 THEN <<Update("FolderNodes", EmptyDict, "id", e.id)>> ELSE <<>>
      [] e.class = "Pool" ->
           IF e.id # 0
           THEN LET oldids == StoredMembers(d, e.id)
                    newids == [i \in 1..Len(e.renderNodes) |-> m[e.renderNodes[i]].id]
                    gone == SelectSeq(oldids, LAMBDA x : ~InSeq(x, newids))
                    come == SelectSeq(newids, LAMBDA x : ~InSeq(x, oldids))
                IN <<[op |-> "Get", table |-> "Pools", id |-> e.id]>>
                     \o [i \in 1..Len(gone) |->
                           [op |-> "RemoveMember", table |-> "pools_render_nodes",
                            pools_id |-> e.id, render_nodes_id |-> gone[i]]]
                     \o [i \in 1..Len(come) |->
                           Insert("pools_render_nodes", NULL,
                                  [pools_id |-> e.id, render_nodes_id |-> come[i]])]
           ELSE <<>>
      [] e.class = "RenderNode" ->
           IF e.id # 0 THEN <<Update("RenderNodes", EmptyDict, "id", e.id)>> ELSE <<>>
      [] OTHER -> <<>>

\* ------------------------------------------------------ archiveElements
Archived == [archived |-> TRUE]

\* the queries of one turn of the loop of archiveElements
archiveStatements(m, e) ==
    CASE e.class = "Task" ->
           <<Update("Tasks", Archived, "id", e.id),
             Update("Arguments", Archived, "taskId", e.id)>>
      [] e.class = "TaskGroup" ->
           <<Update("TaskGroups", Archived, "id", e.id),
             Update("Arguments", Archived, "taskGroupId", e.id)>>
      [] e.class = "Command" -> <<Update("Commands", Archived, "id", e.id)>>
      [] e.class = "TaskNode" -> <<Update("TaskNodes", Archived, "id", e.id)>>
      [] e.class = "FolderNode" -> <<Update("FolderNodes", Archived, "id", e.id)>>
      [] e.class = "Pool" ->
           <<Update("Pools", Archived, "id", e.id)>>
             \o [i \in 1..Len(e.poolShares) |->
                   Update("PoolShares", Archived, "id", m[e.poolShares[i]].id)]
      [] e.class = "PoolShare" -> <<Update("PoolShares", Archived, "id", e.id)>>
      [] e.class = "RenderNode" -> <<Delete("RenderNodes", e.id)>>

\* ---------------------------------------------------------- the calls
Statements(method, d, m, e) ==
    CASE method = "createElements" -> createStatements(m, e)
      [] method = "updateElements" -> updateStatements(d, m, e)
      [] method = "archiveElements" -> archiveStatements(m, e)

\* the loop "for element in elements" of the three methods; k numbers the queries
RECURSIVE RunElements(_, _, _, _, _, _)
RunElements(method, d, m, elements, k, failAt) ==
    IF elements = <<>> THEN [db |-> d, raised |-> "none"]
    ELSE LET stmts == Statements(method, d, m, m[Head(elements)])
             r == RunQueries(d, stmts, k, failAt)
         IN IF r.raised # "none" THEN r
            ELSE RunElements(method, r.db, m, Tail(elements), k + Len(stmts), failAt)

createElements(d, m, elements, order, failAt) ==
    RunElements("createElements", d, m, SortByClass(m, elements, order), 1, failAt)

updateElements(d, m, elements, failAt) ==
    RunElements("updateElements", d, m, elements, 1, failAt)

archiveElements(d, m, elements, failAt) ==
    RunElements("archiveElements", d, m, elements, 1, failAt)

\* the number of queries a call sends when none fails
RECURSIVE NbQueries(_, _, _, _)
NbQueries(method, d, m, elements) ==
    IF elements = <<>> THEN 0
    ELSE Len(Statements(method, d, m, m[Head(elements)]))
           + NbQueries(method, d, m, Tail(elements))

\* a list holding the elements of S once each
RECURSIVE SeqOfSet(_)
SeqOfSet(S) ==
    IF S = {} THEN <<>>
    ELSE LET k == CHOOSE x \in S : TRUE IN <<k>> \o SeqOfSet(S \ {k})

\* the puliclient variables, which the dispatcher does not use
IdleClient ==
    /\ root = 1
    /\ kind = EmptyGraph("TaskGroup").kind
    /\ decomposer = EmptyGraph("TaskGroup").decomposer
    /\ tasks = [n \in Nodes |-> <<>>]
    /\ taskGroups = [n \in Nodes |-> <<>>]
    /\ dependencies = [n \in Nodes |-> EmptyDict]
    /\ arguments = [n \in Nodes |-> EmptyDict]
    /\ argParent = [n \in Nodes |-> None]
    /\ expander = [n \in Nodes |-> FALSE]
    /\ decomposed = [n \in Nodes |-> FALSE]
    /\ expanded = [n \in Nodes |-> FALSE]
    /\ commands = [n \in Nodes |-> <<>>]
    /\ invoked = [n \in Nodes |-> 0]
    /\ phase = "build"
    /\ repr = NoRepr
    /\ raised = "none"
    /\ cycle = <<>>
    /\ got = <<>>
    /\ call = <<>>
    /\ pc = "idle"
    /\ executionList = <<>>
    /\ cursor = 0
    /\ counts = [numDONE |-> 0, numERROR |-> 0, numCANCELED |-> 0]
    /\ nbRuns = <<>>
    /\ interrupted = FALSE
    /\ ret = None

clientVars == <<builderVars, phase, repr, cycle, got, execVars>>

\* PuliDB.createElements(elements); query number failAt fails (0: none does)
CreateElements(elements, failAt) ==
    /\ LET r == createElements(db, mem, elements, classOrder, failAt)
       IN db' = r.db /\ raised' = r.raised
    /\ call' = <<"createElements", elements>>
    /\ UNCHANGED <<clientVars, mem, toModify, tree, classOrder>>

\* PuliDB.updateElements(elements); the caller empties its queue when the call returns
UpdateElements(elements, failAt) ==
    /\ LET r == updateElements(db, mem, elements, failAt)
       IN /\ db' = r.db
          /\ raised' = r.raised
          /\ toModify' = IF r.raised = "none"
                         THEN toModify \ {elements[i] : i \in 1..Len(elements)}
                         ELSE toModify
    /\ call' = <<"updateElements", elements>>
    /\ UNCHANGED <<clientVars, mem, tree, classOrder>>

\* PuliDB.archiveElements(elements)
ArchiveElements(elements, failAt) ==
    /\ LET r == archiveElements(db, mem, elements, failAt)
       IN db' = r.db /\ raised' = r.raised
    /\ call' = <<"archiveElements", elements>>
    /\ UNCHANGED <<clientVars, mem, toModify, tree, classOrder>>

\* the dispatcher changes one attribute of an entity and queues the entity for the
\* next flush
Mutate(k, field, value) ==
    /\ mem[k][field] # value
    /\ mem' = [mem EXCEPT ![k][field] = value]
    /\ toModify' = toModify \cup {k}
    /\ UNCHANGED <<clientVars, raised, call, db, tree, classOrder>>

\* the attributes the dispatcher changes after submission
Mutations ==
    ({"c"} \X {"status"} \X {RUNNING, DONE})
      \cup ({"c"} \X {"completion"} \X {0, 1})
      \cup ({"c"} \X {"message"} \X {"", "m"})
      \cup ({"c"} \X {"renderNode"} \X {"none", "rn"})
      \cup ({"tn"} \X {"dispatchKey", "maxRN"} \X {0, 1})
      \cup ({"ps"} \X {"maxRN"} \X {1, 2})

AllElements == SeqOfSet(EKeys)

\* every entity of the submitted graph has been created in the store
InitFlush ==
    /\ IdleClient
    /\ classOrder = EntityClasses
    /\ mem = Submitted(1, 2, 3, 0, 0)
    /\ db = createElements(EmptyDb, mem, AllElements, classOrder, 0).db
    /\ toModify = {}
    /\ tree = <<>>

\* mutations between flushes, and flushes that drain the whole queue
NextFlush ==
    \/ \E x \in Mutations : Mutate(x[1], x[2], x[3])
    \/ toModify # {} /\ UpdateElements(SeqOfSet(toModify), 0)

SpecFlush == InitFlush /\ [][NextFlush]_vars

\* ------------------------------------------------------------- batches
\* orders in which elements.sort(key=element.__class__) may leave the classes: class
\* objects compare by address
ClassOrders ==
    {EntityClasses,
     <<"PoolShare", "TaskNode", "FolderNode", "Command", "Task", "TaskGroup",
       "RenderNode", "Pool">>}

\* the lists the dispatcher hands to the mapper
Batches == {<<"rn", "p">>, <<"t", "c">>, <<"tn">>}

Sorted(method, batch) ==
    IF method = "createElements" THEN SortByClass(mem, batch, classOrder) ELSE batch

RowsWithin(d) ==
    /\ Len(d.Rules) <= MaxRows
    /\ Len(d.Arguments) <= MaxRows
    /\ Len(d.Dependencies) <= MaxRows
    /\ Len(d.pools_render_nodes) <= MaxRows

\* one call of a mapper method on a batch; failAt = 0 when the database refuses no query
\* for a reason of its own
Batch(method, batch, failAt) ==
    /\ failAt <= NbQueries(method, db, mem, batch)
    /\ RowsWithin(RunElements(method, db, mem, Sorted(method, batch), 1, failAt).db)
    /\ CASE method = "createElements" -> CreateElements(batch, failAt)
         [] method = "updateElements" -> UpdateElements(batch, failAt)
         [] method = "archiveElements" -> ArchiveElements(batch, failAt)

InitBatch ==
    /\ IdleClient
    /\ classOrder \in ClassOrders
    /\ mem = Submitted(1, 2, 3, 0, 0)
    /\ db = EmptyDb
    /\ toModify = {}
    /\ tree = <<>>

NextBatch ==
    \/ \E batch \in Batches, failAt \in 0..MaxFail : Batch("createElements", batch, failAt)
    \/ \E batch \in Batches, failAt \in 0..MaxFail : Batch("updateElements", batch, failAt)
    \/ \E batch \in Batches, failAt \in 0..MaxFail : Batch("archiveElements", batch, failAt)

SpecBatch == InitBatch /\ [][NextBatch]_vars

\* --------------------------------------------------------------- pools
PoolKeys == {"p", "p2", "rn", "rn2"}

\* the renderNodes list of a pool
MemberLists == {<<>>, <<"rn">>, <<"rn2">>, <<"rn", "rn2">>, <<"rn2", "rn">>}

\* two pools and two render nodes in memory
PoolsInMemory(members, members2) ==
    [k \in PoolKeys |->
       CASE k = "p" -> [class |-> "Pool", id |-> 1, name |-> "p",
                        renderNodes |-> members, poolShares |-> <<>>]
         [] k = "p2" -> [class |-> "Pool", id |-> 2, name |-> "p2",
                         renderNodes |-> members2, poolShares |-> <<>>]
         [] k = "rn" -> [class |-> "RenderNode", id |-> 1, name |-> "rn"]
         [] k = "rn2" -> [class |-> "RenderNode", id |-> 2, name |-> "rn2"]]

InitPools ==
    /\ IdleClient
    /\ classOrder = EntityClasses
    /\ \E members, members2 \in MemberLists : mem = PoolsInMemory(members, members2)
    /\ db = createElements(EmptyDb, mem, <<"rn", "rn2", "p", "p2">>, classOrder, 0).db
    /\ toModify = {}
    /\ tree = <<>>

\* render nodes join and leave pools in memory; a flush updates one queued pool
NextPools ==
    \/ \E k \in {"p", "p2"}, members \in MemberLists : Mutate(k, "renderNodes", members)
    \/ \E k \in toModify : UpdateElements(<<k>>, 0)

SpecPools == InitPools /\ [][NextPools]_vars

\* ---------------------------------------------------- restoreStateFromDb
Max(S) == CHOOSE x \in S : \A y \in S : y <= x

Min(S) == CHOOSE x \in S : \A y \in S : x <= y

\* the rows of a table in the order a Select returns them: by ascending id
RECURSIVE Ascending(_)
Ascending(S) == IF S = {} THEN <<>> ELSE <<Min(S)>> \o Ascending(S \ {Min(S)})

\* ids of the rows a Select with where=(archived == False) returns
Live(table) == Ascending({i \in DOMAIN table : ~table[i].archived})

Override(f, g) == [x \in DOMAIN f \cup DOMAIN g |-> IF x \in DOMAIN g THEN g[x] ELSE f[x]]

\* `if x:` on a column value: None and 0 are false
Truthy(x) == x # NULL /\ x # 0

\* a DispatchTree before restore: the root folder node only
EmptyTree ==
    [pools |-> EmptyDict, renderNodes |-> EmptyDict, poolShares |-> EmptyDict,
     tasks |-> EmptyDict, commands |-> EmptyDict,
     nodes |-> [i \in {0} |-> [class |-> "FolderNode", id |-> 0, name |-> "root"]],
     nodeMaxId |-> 0, poolMaxId |-> 0, renderNodeMaxId |-> 0, taskMaxId |-> 0,
     commandMaxId |-> 0, poolShareMaxId |-> 0, toCreateElements |-> <<"pending">>]

\* the local variables of restoreStateFromDb and the objects it has put in the tree
\* so far (the tree holds references: an object changed later is seen changed)
RestoreStart(tree0) ==
    [tree0 |-> tree0, raised |-> "none",
     poolsById |-> EmptyDict, rnById |-> EmptyDict, nodesById |-> EmptyDict,
     cmdDict |-> EmptyDict, realTasksList |-> EmptyDict, realTaskGroupsList |-> EmptyDict,
     realRulesForFolderNodes |-> EmptyDict, realRulesForTaskNodes |-> EmptyDict,
     dispatchKey |-> [bound |-> FALSE, v |-> 0],
     inPools |-> {}, inRenderNodes |-> {}, inPoolShares |-> EmptyDict,
     inTasks |-> {}, inTaskGroups |-> {}, inCommands |-> {}, inNodes |-> {},
     maxIds |-> EmptyDict, done |-> FALSE]

Fail(st, exc) == [st EXCEPT !.raised = exc]

\* pools of a render node found through the join table, non-archived pools only
PoolsOfRenderNode(d, id) ==
    LET rows == SelectSeq(d.pools_render_nodes,
                          LAMBDA r : /\ r.render_nodes_id = id
                                     /\ r.pools_id \in DOMAIN d.Pools
                                     /\ ~d.Pools[r.pools_id].archived)
    IN [i \in 1..Len(rows) |-> rows[i].pools_id]

\* pool.renderNodes after the loop over the render nodes: one entry per join row
RenderNodesOfPool(d, id) ==
    LET rns == Ascending(DOMAIN d.RenderNodes)
        RECURSIVE Flat(_)
        Flat(l) == IF l = <<>> THEN <<>>
                   ELSE [i \in 1..Len(SelectSeq(PoolsOfRenderNode(d, Head(l)),
                                                LAMBDA x : x = id)) |-> Head(l)]
                          \o Flat(Tail(l))
    IN Flat(rns)

\* lines 589-645: the pools and the render nodes, read from the store or from the tree
RestorePools(d, st, rnsAlreadyLoaded) ==
    IF rnsAlreadyLoaded
    THEN [st EXCEPT
            !.poolsById = [i \in {st.tree0.pools[n].id : n \in DOMAIN st.tree0.pools} |->
                             LET n == CHOOSE n \in DOMAIN st.tree0.pools : st.tree0.pools[n].id = i
                             IN st.tree0.pools[n]],
            !.rnById = [i \in {st.tree0.renderNodes[n].id : n \in DOMAIN st.tree0.renderNodes} |->
                          LET n == CHOOSE n \in DOMAIN st.tree0.renderNodes :
                                      st.tree0.renderNodes[n].id = i
                          IN st.tree0.renderNodes[n]]]
    ELSE [st EXCEPT
            !.poolsById = [i \in {j \in DOMAIN d.Pools : ~d.Pools[j].archived} |->
                             [class |-> "Pool", id |-> i, name |-> d.Pools[i].name,
                              renderNodes |-> RenderNodesOfPool(d, i)]],
            !.rnById = [i \in DOMAIN d.RenderNodes |->
                          [class |-> "RenderNode", id |-> i, name |-> d.RenderNodes[i].name,
                           pools |-> PoolsOfRenderNode(d, i)]],
            !.inPools = {j \in DOMAIN d.Pools : ~d.Pools[j].archived},
            !.inRenderNodes = DOMAIN d.RenderNodes]

\* lines 647-711: the skeleton nodes; the loops leave the last row in `dispatchKey`
RestoreNodes(d, st) ==
    LET folders == Live(d.FolderNodes)
        taskNodes == Live(d.TaskNodes)
        Obj(cls, table, i) ==
            [class |-> cls, id |-> i, name |-> table[i].name, parent |-> NULL,
             user |-> table[i].user, priority |-> table[i].priority,
             dispatchKey |-> table[i].dispatchKey, maxRN |-> table[i].maxRN,
             ref |-> NULL, dependencies |-> <<>>]
        ids == {folders[i] : i \in 1..Len(folders)} \cup {taskNodes[i] : i \in 1..Len(taskNodes)}
    IN [st EXCEPT
          !.nodesById = [i \in ids |->
                           IF InSeq(i, taskNodes) THEN Obj("TaskNode", d.TaskNodes, i)
                           ELSE Obj("FolderNode", d.FolderNodes, i)],
          !.dispatchKey =
              IF taskNodes # <<>>
              THEN [bound |-> TRUE, v |-> d.TaskNodes[taskNodes[Len(taskNodes)]].dispatchKey]
              ELSE IF folders # <<>>
              THEN [bound |-> TRUE, v |-> d.FolderNodes[folders[Len(folders)]].dispatchKey]
              ELSE @]

\* the next statement of the method runs on the state the previous one left, unless an
\* exception has ended the method
Step(st, F(_)) == CHOOSE r \in {IF s.raised # "none" THEN s ELSE F(s) : s \in {st}} : TRUE

\* for x in rows: Row(st, x), from row number i on
RECURSIVE ForEach(_, _, _, _)
ForEach(Row(_, _), st, rows, i) ==
    IF i > Len(rows) THEN st
    ELSE ForEach(Row, Step(st, LAMBDA s : Row(s, rows[i])), rows, i + 1)

\* statusIntList = [int(i) for i in statusList.split(",")]
SplitStatus(parts) == [i \in 1..Len(parts) |-> IntOfStr(parts[i])]

\* one row r of the Dependencies of node id (lines 727-730, 744-747)
RestoreDependency(st, id, r) ==
    IF \E i \in 1..Len(r.statusList) : r.statusList[i] = "" THEN Fail(st, "ValueError")
    ELSE IF r.toNodeId \notin DOMAIN st.nodesById THEN Fail(st, "KeyError")
    ELSE [st EXCEPT !.nodesById[id].dependencies =
                        Append(@, <<r.toNodeId, SplitStatus(r.statusList)>>)]

\* lines 713-747: the parent and the dependencies of node id; column names the foreign
\* key of Dependencies
RestoreLinks(d, st, id, column) ==
    LET parentId == IF column = "folderNodes" THEN d.FolderNodes[id].parentId
                    ELSE d.TaskNodes[id].parentId
        deps == SelectSeq(d.Dependencies, LAMBDA r : r[column] = id)
        st1 == IF parentId = 0 THEN [st EXCEPT !.nodesById[id].parent = 0]
               ELSE IF column = "folderNodes" /\ ~Truthy(parentId) THEN st
               ELSE IF parentId \notin DOMAIN st.nodesById THEN Fail(st, "KeyError")
               ELSE [st EXCEPT !.nodesById[id].parent = parentId]
    IN ForEach(LAMBDA s, r : RestoreDependency(s, id, r), st1, deps, 1)

\* lines 749-763: pool share id
RestorePoolShares(d, st, id) ==
    LET row == d.PoolShares[id]
    IN IF row.poolId \notin DOMAIN st.poolsById \/ row.nodeId \notin DOMAIN st.nodesById
       THEN Fail(st, "KeyError")
       ELSE [st EXCEPT !.inPoolShares =
                Override(@, [i \in {id} |->
                               [class |-> "PoolShare", id |-> i, pool |-> row.poolId,
                                node |-> row.nodeId, maxRN |-> row.maxRN]])]

\* the commands pass without its assert
RestoreCommandsNoAssert(d, st, id) ==
    LET row == d.Commands[id]
        rn == IF row.assignedRNId \in DOMAIN st.rnById THEN row.assignedRNId ELSE NULL
    IN [st EXCEPT !.cmdDict =
           Override(@, [i \in {id} |->
                          [class |-> "Command", id |-> i,
                           description |-> row.description, task |-> NULL,
                           taskId |-> row.taskId,
                           status |-> row.status, completion |-> row.completion,
                           renderNode |-> rn, message |-> row.message,
                           arguments |-> EmptyDict]])]

\* lines 765-798: command id, with the assert on the render node of a command that is
\* RUNNING, DONE or ERROR
RestoreCommands(d, st, id) ==
    LET row == d.Commands[id]
        rn == IF row.assignedRNId \in DOMAIN st.rnById THEN row.assignedRNId ELSE NULL
    IN IF row.status \in {2, 3, 4} /\ rn = NULL THEN Fail(st, "AssertionError")
       ELSE [st EXCEPT !.cmdDict =
                Override(@, [i \in {id} |->
                               [class |-> "Command", id |-> i,
                                description |-> row.description, task |-> NULL,
                                taskId |-> row.taskId,
                                status |-> row.status, completion |-> row.completion,
                                renderNode |-> rn, message |-> row.message,
                                arguments |-> EmptyDict]])]

\* lines 800-851: task id, put in the tree with its commands; the loop leaves the row in
\* `dispatchKey`
RestoreTasks(d, st, id) ==
    LET row == d.Tasks[id]
        taskCmds == SelectSeq(Ascending(DOMAIN st.cmdDict),
                              LAMBDA c : st.cmdDict[c].taskId = id)
        cmds == {taskCmds[i] : i \in 1..Len(taskCmds)}
    IN [st EXCEPT
          !.dispatchKey = [bound |-> TRUE, v |-> row.dispatchKey],
          !.realTasksList =
              Override(@, [i \in {id} |->
                             [class |-> "Task", id |-> id, name |-> row.name,
                              parent |-> NULL, user |-> row.user, maxRN |-> row.maxRN,
                              priority |-> row.priority,
                              dispatchKey |-> row.dispatchKey,
                              members |-> taskCmds, arguments |-> EmptyDict,
                              nodes |-> EmptyDict]]),
          !.inTasks = @ \cup {id},
          !.cmdDict = [c \in DOMAIN @ |-> IF c \in cmds THEN [@[c] EXCEPT !.task = id]
                                          ELSE @[c]],
          !.inCommands = @ \cup cmds]

\* lines 870-885: task group id; line 881 passes `dispatchKey`, which line 871 does not
\* assign (it assigns `dispatcherKey`)
RestoreTaskGroups(d, st, id) ==
    LET row == d.TaskGroups[id]
    IN IF ~st.dispatchKey.bound THEN Fail(st, "UnboundLocalError")
       ELSE [st EXCEPT !.realTaskGroupsList =
                Override(@, [i \in {id} |->
                               [class |-> "TaskGroup", id |-> id, name |-> row.name,
                                parent |-> NULL, user |-> row.user,
                                maxRN |-> row.maxRN, priority |-> row.priority,
                                dispatchKey |-> st.dispatchKey.v,
                                members |-> <<>>, arguments |-> EmptyDict,
                                nodes |-> EmptyDict]])]

\* lines 888-893: the parent of task group id, and the task group put in the tree
RestoreTaskGroupParents(d, st, id) ==
    LET parentId == d.TaskGroups[id].parentId
    IN IF ~Truthy(parentId) THEN [st EXCEPT !.inTaskGroups = @ \cup {id}]
       ELSE IF parentId \notin DOMAIN st.realTaskGroupsList THEN Fail(st, "KeyError")
       ELSE [st EXCEPT !.realTaskGroupsList[parentId].members = Append(@, id),
                       !.realTaskGroupsList[id].parent = parentId,
                       !.inTaskGroups = @ \cup {id}]

\* lines 896-900: the parent of task id
RestoreTaskParents(d, st, id) ==
    LET parentId == d.Tasks[id].parentId
    IN IF ~Truthy(parentId) THEN st
       ELSE IF parentId \notin DOMAIN st.realTaskGroupsList THEN Fail(st, "KeyError")
       ELSE [st EXCEPT !.realTaskGroupsList[parentId].members = Append(@, id),
                       !.realTasksList[id].parent = parentId]

\* lines 902-920: one row of the Arguments that are not archived, value = str(value)
RestoreArguments(st, r) ==
    LET arg == [n \in {r.name} |-> StrOfValue(r.value)]
    IN IF r.commandId # NULL /\ r.commandId \in DOMAIN st.cmdDict
       THEN [st EXCEPT !.cmdDict[r.commandId].arguments = Override(@, arg)]
       ELSE IF r.taskId # NULL /\ r.taskId \in DOMAIN st.realTasksList
       THEN [st EXCEPT !.realTasksList[r.taskId].arguments = Override(@, arg)]
       ELSE IF r.taskGroupId # NULL /\ r.taskGroupId \in DOMAIN st.realTaskGroupsList
       THEN [st EXCEPT !.realTaskGroupsList[r.taskGroupId].arguments = Override(@, arg)]
       ELSE st

\* lines 922-935: one row of Rules (every row is read)
RestoreRules(st, r) ==
    IF Truthy(r.folderNodeId)
    THEN [st EXCEPT !.realRulesForFolderNodes = Override(@, [i \in {r.folderNodeId} |-> r.name])]
    ELSE IF r.taskNodeId = NULL THEN Fail(st, "TypeError")
    ELSE [st EXCEPT !.realRulesForTaskNodes = Override(@, [i \in {r.taskNodeId} |-> r.name])]

\* tree.tasks[id].nodes[rule] = node, on the object tree.tasks holds under id
SetTaskNode(st, id, rule, node) ==
    IF id \in st.inTaskGroups
    THEN [st EXCEPT !.realTaskGroupsList[id].nodes = Override(@, [r \in {rule} |-> node])]
    ELSE [st EXCEPT !.realTasksList[id].nodes = Override(@, [r \in {rule} |-> node])]

\* lines 939-946: the task of task node id, and the task node put in the tree
RestoreTaskOfNodes(d, st, id) ==
    LET taskId == d.TaskNodes[id].taskId
    IN IF taskId = NULL THEN Fail(st, "TypeError")
       ELSE IF taskId \notin DOMAIN st.realTasksList THEN Fail(st, "KeyError")
       ELSE IF id \notin DOMAIN st.realRulesForTaskNodes
       THEN Fail([st EXCEPT !.nodesById[id].ref = taskId], "KeyError")
       ELSE [SetTaskNode(st, taskId, st.realRulesForTaskNodes[id], id)
               EXCEPT !.nodesById[id].ref = taskId, !.inNodes = @ \cup {id}]

\* lines 949-955: the task group of folder node id, and the folder node put in the tree
RestoreTaskGroupOfNodes(d, st, id) ==
    LET tgId == d.FolderNodes[id].taskGroupId
    IN IF ~Truthy(tgId) THEN [st EXCEPT !.inNodes = @ \cup {id}]
       ELSE IF tgId \notin st.inTasks \cup st.inTaskGroups \cup DOMAIN st.tree0.tasks
       THEN Fail(st, "KeyError")
       ELSE IF id \notin DOMAIN st.realRulesForFolderNodes
       THEN Fail([st EXCEPT !.nodesById[id].ref = tgId], "KeyError")
       ELSE [SetTaskNode(st, tgId, st.realRulesForFolderNodes[id], id)
               EXCEPT !.nodesById[id].ref = tgId, !.inNodes = @ \cup {id}]

\* Table.select().max(Table.q.id): None on a table without rows
MaxId(table) == IF DOMAIN table = {} THEN NULL ELSE Max(DOMAIN table)

\* lines 958-971: the max ids, one assignment after the other; int(None) raises, and the
\* two try/except blocks turn that into 0
RestoreMaxIds(d, st) ==
    LET nodeMax == Max({MaxId(d.FolderNodes), MaxId(d.TaskNodes)})
        Set(m, name, v) == Override(m, [n \in {name} |-> v])
        m1 == Set(st.maxIds, "nodeMaxId", nodeMax)
        m2 == Set(m1, "poolMaxId", MaxId(d.Pools))
        m3 == Set(m2, "renderNodeMaxId", MaxId(d.RenderNodes))
        m4 == Set(m3, "taskMaxId", IF MaxId(d.Tasks) = NULL THEN 0 ELSE MaxId(d.Tasks))
        m5 == Set(m4, "commandMaxId", IF MaxId(d.Commands) = NULL THEN 0 ELSE MaxId(d.Commands))
        m6 == Set(m5, "poolShareMaxId", MaxId(d.PoolShares))
    IN IF nodeMax = NULL THEN Fail(st, "TypeError")
       ELSE IF MaxId(d.Pools) = NULL THEN Fail([st EXCEPT !.maxIds = m1], "TypeError")
       ELSE IF MaxId(d.RenderNodes) = NULL THEN Fail([st EXCEPT !.maxIds = m2], "TypeError")
       ELSE IF MaxId(d.PoolShares) = NULL THEN Fail([st EXCEPT !.maxIds = m5], "TypeError")
       ELSE [st EXCEPT !.maxIds = m6, !.done = TRUE]

\* the DispatchTree as the method leaves it: what it has assigned in the tree so far,
\* over what the tree held
TreeOf(st) ==
    LET byName(objs, ids) ==
            [n \in {objs[i].name : i \in ids} |->
                objs[CHOOSE i \in ids : objs[i].name = n]]
        maxId(name) == IF name \in DOMAIN st.maxIds THEN st.maxIds[name] ELSE st.tree0[name]
    IN [pools |-> Override(st.tree0.pools, byName(st.poolsById, st.inPools)),
        renderNodes |-> Override(st.tree0.renderNodes, byName(st.rnById, st.inRenderNodes)),
        poolShares |-> Override(st.tree0.poolShares, st.inPoolShares),
        tasks |-> Override(st.tree0.tasks,
                           [i \in st.inTasks \cup st.inTaskGroups |->
                              IF i \in st.inTaskGroups THEN st.realTaskGroupsList[i]
                              ELSE st.realTasksList[i]]),
        commands |-> Override(st.tree0.commands, [i \in st.inCommands |-> st.cmdDict[i]]),
        nodes |-> Override(st.tree0.nodes, [i \in st.inNodes |-> st.nodesById[i]]),
        nodeMaxId |-> maxId("nodeMaxId"), poolMaxId |-> maxId("poolMaxId"),
        renderNodeMaxId |-> maxId("renderNodeMaxId"), taskMaxId |-> maxId("taskMaxId"),
        commandMaxId |-> maxId("commandMaxId"), poolShareMaxId |-> maxId("poolShareMaxId"),
        toCreateElements |-> IF st.done THEN <<>> ELSE st.tree0.toCreateElements]

\* the passes in the order of the method
restoreStateFromDb(d, tree0, rnsAlreadyLoaded) ==
    LET folderNodes == Live(d.FolderNodes)
        taskNodes == Live(d.TaskNodes)
        tasks_ == Live(d.Tasks)
        taskGroups_ == Live(d.TaskGroups)
        s0 == RestoreStart(tree0)
        s1 == Step(Step(s0, LAMBDA s : RestorePools(d, s, rnsAlreadyLoaded)),
                   LAMBDA s : RestoreNodes(d, s))
        s2 == ForEach(LAMBDA s, id : RestoreLinks(d, s, id, "folderNodes"), s1, folderNodes, 1)
        s3 == ForEach(LAMBDA s, id : RestoreLinks(d, s, id, "taskNodes"), s2, taskNodes, 1)
        s4 == ForEach(LAMBDA s, id : RestorePoolShares(d, s, id), s3, Live(d.PoolShares), 1)
        s5 == ForEach(LAMBDA s, id : RestoreCommands(d, s, id), s4, Live(d.Commands), 1)
        s6 == ForEach(LAMBDA s, id : RestoreTasks(d, s, id), s5, tasks_, 1)
        s7 == ForEach(LAMBDA s, id : RestoreTaskGroups(d, s, id), s6, taskGroups_, 1)
        s8 == ForEach(LAMBDA s, id : RestoreTaskGroupParents(d, s, id), s7, taskGroups_, 1)
        s9 == ForEach(LAMBDA s, id : RestoreTaskParents(d, s, id), s8, tasks_, 1)
        s10 == ForEach(RestoreArguments, s9,
                       SelectSeq(d.Arguments, LAMBDA r : ~r.archived), 1)
        s11 == ForEach(RestoreRules, s10, d.Rules, 1)
        s12 == ForEach(LAMBDA s, id : RestoreTaskOfNodes(d, s, id), s11, taskNodes, 1)
        s13 == ForEach(LAMBDA s, id : RestoreTaskGroupOfNodes(d, s, id), s12, folderNodes, 1)
        s14 == Step(s13, LAMBDA s : RestoreMaxIds(d, s))
    IN CHOOSE r \in {[tree |-> TreeOf(s), raised |-> s.raised] : s \in {s14}} : TRUE

\* ------------------------------------------------------------- restart
\* the tree when the pools and the render nodes were loaded before the call
LoadedTree(m) ==
    [EmptyTree EXCEPT
       !.pools = [n \in {m["p"].name} |->
                    [class |-> "Pool", id |-> m["p"].id, name |-> n,
                     renderNodes |-> <<m["rn"].id>>]],
       !.renderNodes = [n \in {m["rn"].name} |->
                          [class |-> "RenderNode", id |-> m["rn"].id, name |-> n,
                           pools |-> <<m["p"].id>>]]]

Restored == call # <<>> /\ call[1] = "restoreStateFromDb"

\* PuliDB.restoreStateFromDb(tree, rnsAlreadyLoaded) when the dispatcher starts again
RestoreStateFromDb(rnsAlreadyLoaded) ==
    /\ ~Restored
    /\ rnsAlreadyLoaded = (DOMAIN tree.pools # {})
    /\ \E r \in {restoreStateFromDb(db, tree, rnsAlreadyLoaded)} :
          tree' = r.tree /\ raised' = r.raised
    /\ call' = <<"restoreStateFromDb", rnsAlreadyLoaded>>
    /\ UNCHANGED <<clientVars, mem, db, toModify, classOrder>>

\* what the dispatcher does to a running graph before it stops
RunMutations ==
    ({"c"} \X {"status"} \X {RUNNING, DONE})
      \cup ({"c"} \X {"renderNode"} \X {"rn"})

\* the lists the dispatcher archives before it stops
RunArchives == {<<"tn">>, <<"rn">>, <<"t2", "tn2">>}

\* one allocator gives the ids of Tasks and TaskGroups, in the order they are made
TaskIds == {<<1, 2, 3>>, <<3, 1, 2>>}

InitRestore ==
    /\ IdleClient
    /\ classOrder = EntityClasses
    /\ \E ids \in TaskIds, tgKey, tKey \in {0, 1} :
          mem = Submitted(ids[1], ids[2], ids[3], tgKey, tKey)
    /\ db = createElements(EmptyDb, mem, AllElements, classOrder, 0).db
    /\ toModify = {}
    /\ tree \in {EmptyTree, LoadedTree(mem)}

NextRestore ==
    \/ ~Restored /\ \E x \in RunMutations : Mutate(x[1], x[2], x[3])
    \/ ~Restored /\ toModify # {} /\ UpdateElements(SeqOfSet(toModify), 0)
    \/ ~Restored /\ \E batch \in RunArchives : ArchiveElements(batch, 0)
    \/ \E rnsAlreadyLoaded \in BOOLEAN : RestoreStateFromDb(rnsAlreadyLoaded)

SpecRestore == InitRestore /\ [][NextRestore]_vars

\* ================================================================ claims
\* ------------------------------------------------------------------ C1
Hierarchy == {root} \cup Descendants(G, root, {})

DepSucc(S) == UNION {DOMAIN dependencies[n] : n \in S}

RECURSIVE DepClosure(_)
DepClosure(S) == LET T == S \cup DepSucc(S) IN IF T = S THEN S ELSE DepClosure(T)

DependsOnItself(m) == m \in DepClosure(DepSucc({m}))

CycleReachable == \E n \in Hierarchy : \E m \in DepClosure({n}) : DependsOnItself(m)

\* c starts in the hierarchy, follows dependency edges and ends on a node it already holds
IsCyclePath(c) ==
    /\ Len(c) >= 2
    /\ c[1] \in Hierarchy
    /\ \A i \in 1..(Len(c) - 1) : c[i + 1] \in DOMAIN dependencies[c[i]]
    /\ \E i \in 1..(Len(c) - 1) : c[i] = c[Len(c)]

\* C1: when a node of the hierarchy reaches, along dependency edges, a node that depends
\* on itself, prepareGraphRepresentation raises DependencyCycleError, the message lists a
\* dependency path that closes the cycle, and no representation is returned.
C1_CycleRejected ==
    (phase = "prepared" /\ CycleReachable)
        => /\ raised = "DependencyCycleError"
           /\ repr = NoRepr
           /\ IsCyclePath(cycle)

\* a cycle that lies outside the hierarchy and is reached from a contained node
C1_Witness ==
    /\ phase = "prepared"
    /\ raised = "DependencyCycleError"
    /\ \E m \in Nodes : DependsOnItself(m) /\ m \notin Hierarchy
    /\ ~DependsOnItself(root)

\* ------------------------------------------------------------------ C3
ReprChildren(T, S) ==
    UNION {{T[i + 1].tasks[k] : k \in 1..Len(T[i + 1].tasks)} :
              i \in {j \in S : T[j + 1].type = "TaskGroup"}}

RECURSIVE ReprClosure(_, _)
ReprClosure(T, S) ==
    LET S2 == S \cup ReprChildren(T, S) IN IF S2 = S THEN S ELSE ReprClosure(T, S2)

\* indices of the Task entries below entry i at any depth
DescendantTasks(T, i) ==
    {j \in ReprClosure(T, ReprChildren(T, {i})) : T[j + 1].type = "Task"}

\* C3: in the returned representation every Task entry below a TaskGroup entry, at any
\* depth, carries each dependency (targetIndex, statusList) of that TaskGroup, and the
\* TaskGroup entries hold their own dependencies only.
C3_Lowered ==
    (phase = "prepared" /\ raised = "none")
        => LET T == repr.tasks
           IN \A i \in 0..(Len(T) - 1) :
                 T[i + 1].type = "TaskGroup"
                    => /\ \A k \in 1..Len(T[i + 1].dependencies) :
                             \A j \in DescendantTasks(T, i) :
                                InSeq(T[i + 1].dependencies[k], T[j + 1].dependencies)
                       /\ Len(T[i + 1].dependencies)
                             = Cardinality(DOMAIN dependencies[T[i + 1].name])

\* a TaskGroup with a dependency, a Task two levels below it and two children in a group
C3_Witness ==
    /\ phase = "prepared"
    /\ raised = "none"
    /\ LET T == repr.tasks
       IN \E i \in 0..(Len(T) - 1) :
             /\ T[i + 1].type = "TaskGroup"
             /\ Len(T[i + 1].dependencies) > 0
             /\ \E j \in DescendantTasks(T, i) :
                   /\ j \notin ReprChildren(T, {i})
                   /\ InSeq(T[i + 1].dependencies[1], T[j + 1].dependencies)

\* ------------------------------------------------------------------ C4
\* C4: after lowering no Task entry holds the same (targetIndex, statusList) twice.
C4_NoDuplicate ==
    (phase = "prepared" /\ raised = "none")
        => LET T == repr.tasks
           IN \A i \in 1..Len(T) :
                 T[i].type = "Task"
                    => \A a, b \in 1..Len(T[i].dependencies) :
                          a # b => T[i].dependencies[a] # T[i].dependencies[b]

\* ------------------------------------------------------------------ C5
ReprDepSucc(T, S) ==
    UNION {{T[i + 1].dependencies[k][1] : k \in 1..Len(T[i + 1].dependencies)} : i \in S}

RECURSIVE ReprDepClosure(_, _)
ReprDepClosure(T, S) ==
    LET S2 == S \cup ReprDepSucc(T, S) IN IF S2 = S THEN S ELSE ReprDepClosure(T, S2)

\* C5: in a returned representation no entry depends, directly or transitively, on its
\* own index.
C5_AcyclicRepr ==
    (phase = "prepared" /\ raised = "none")
        => LET T == repr.tasks
           IN \A i \in 0..(Len(T) - 1) : i \notin ReprDepClosure(T, ReprDepSucc(T, {i}))

\* ------------------------------------------------------------------ C8
\* nodes the serializer meets: from the root through children and dependency targets
RECURSIVE SerialClosure(_)
SerialClosure(S) ==
    LET S2 == S \cup DepSucc(S) \cup UNION {Children(G, n) : n \in S}
    IN IF S2 = S THEN S ELSE SerialClosure(S2)

\* C8: `root` is the index of the root's entry, every node met occupies exactly one index,
\* and every child index and dependency target index is a valid index of the entry built
\* from that child or target.
C8_Indices ==
    (phase = "prepared" /\ raised = "none")
        => LET T == repr.tasks
               Valid(i) == i \in 0..(Len(T) - 1)
           IN /\ Valid(repr.root)
              /\ T[repr.root + 1].name = root
              /\ \A n \in SerialClosure({root}) :
                    Cardinality({i \in 1..Len(T) : T[i].name = n}) = 1
              /\ \A i \in 1..Len(T) :
                    /\ T[i].name \in SerialClosure({root})
                    /\ T[i].type = kind[T[i].name]
                    /\ \A k \in 1..Len(T[i].dependencies) : Valid(T[i].dependencies[k][1])
                    /\ \A t \in DOMAIN dependencies[T[i].name] :
                          \E k \in 1..Len(T[i].dependencies) :
                             /\ T[T[i].dependencies[k][1] + 1].name = t
                             /\ T[i].dependencies[k][2] = dependencies[T[i].name][t]
                    /\ T[i].type = "TaskGroup"
                          => LET ch == tasks[T[i].name] \o taskGroups[T[i].name]
                             IN /\ Len(T[i].tasks) = Len(ch)
                                /\ \A k \in 1..Len(ch) :
                                      /\ Valid(T[i].tasks[k])
                                      /\ T[T[i].tasks[k] + 1].name = ch[k]

\* a representation of three entries with a child list and a dependency on a node that
\* is no child of any group
C8_Witness ==
    /\ phase = "prepared"
    /\ raised = "none"
    /\ Len(repr.tasks) >= 3
    /\ \E i \in 1..Len(repr.tasks) :
          /\ Len(repr.tasks[i].dependencies) > 0
          /\ repr.tasks[repr.tasks[i].dependencies[1][1] + 1].name \notin Hierarchy
    /\ repr.tasks[repr.root + 1].type = "TaskGroup"
    /\ Len(repr.tasks[repr.root + 1].tasks) > 0

\* ------------------------------------------------------------------ C2
\* significance order of the status rollup of a task over its commands
Significance == <<ERROR, CANCELED, PAUSED, RUNNING, READY, BLOCKED, DONE>>

Rollup(S) == Significance[CHOOSE i \in 1..Len(Significance) :
                             /\ Significance[i] \in S
                             /\ \A j \in 1..(i - 1) : Significance[j] \notin S]

\* taskid given by execute to the Task entry at index i
TaskIdOf(i) == Cardinality({j \in 1..(i + 1) : repr.tasks[j].type = "Task"})

CommandStatuses(i) ==
    {executionList[c].status : c \in {d \in 1..Len(executionList) :
                                         executionList[d].taskid = TaskIdOf(i)}}

\* edge d = (targetIndex, statusList) to a Task that has commands is satisfied
EdgeSatisfied(d) ==
    (repr.tasks[d[1] + 1].type = "Task" /\ CommandStatuses(d[1]) # {})
        => InSeq(Rollup(CommandStatuses(d[1])), d[2])

\* C2: execute hands a command to the executor only when every dependency edge of its
\* task in the prepared representation is satisfied (the status of the target is in the
\* edge's status list); checked for the edges whose target is a Task with commands.
C2_RunsWhenSatisfied ==
    [][\A c \in 1..Len(executionList) :
          (pc = "loop" /\ nbRuns'[c] > nbRuns[c])
             => \A k \in 1..Len(executionList[c].dependencies) :
                   EdgeSatisfied(executionList[c].dependencies[k])]_vars

\* ------------------------------------------------------------------ C6
AnyStatus(st) == \E c \in 1..Len(executionList) : executionList[c].status = st

\* C6: execute returns CANCELED if a command ended CANCELED or the run was interrupted,
\* otherwise ERROR if a command ended in error (an unknown final state included),
\* otherwise DONE.
C6_AggregateStatus ==
    (pc \in {"returned", "raised"} /\ raised # "DependencyCycleError")
        => /\ pc = "returned"
           /\ ret = IF interrupted \/ AnyStatus(CANCELED) THEN CANCELED
                    ELSE IF AnyStatus(ERROR) THEN ERROR
                    ELSE DONE

\* ------------------------------------------------------------------ C7
\* value of the nearest map defining name on the chain own map, parent's map, ...
RECURSIVE NearestValue(_, _)
NearestValue(n, name) ==
    IF name \in DOMAIN arguments[n] THEN arguments[n][name]
    ELSE IF argParent[n] = None THEN KeyError
    ELSE NearestValue(argParent[n], name)

\* C7: a lookup returns the value of the nearest map on the parent chain that defines the
\* key and fails only when none does, whatever the intermediate maps hold.
C7_NearestOnChain ==
    [][got' # got => got'[3] = NearestValue(got'[1], got'[2])]_vars

\* ------------------------------------------------------------------ C9
\* C9: over any sequence of prepareGraphRepresentation calls each decomposer and each
\* expander is invoked at most once, and preparing a prepared graph adds no node, no
\* child and no command.
C9_AtMostOnce ==
    /\ [](\A n \in Nodes : invoked[n] <= 1)
    /\ [][phase = "prepared" => UNCHANGED <<kind, tasks, taskGroups, commands>>]_vars

\* a prepared graph whose expander ran and whose synthesized task was decomposed
C9_Witness ==
    /\ phase = "prepared"
    /\ \E g \in Nodes :
          /\ kind[g] = "TaskGroup" /\ expander[g] /\ invoked[g] = 1
          /\ \E k \in 1..Len(tasks[g]) : invoked[tasks[g][k]] = 1 /\ argParent[tasks[g][k]] = g
    /\ \E t \in Nodes : kind[t] = "Task" /\ ~decomposer[t] /\ decomposed[t]

\* ------------------------------------------------------------------ C10
\* C10: a task has at least one command if and only if `decomposed` is true.
C10_CommandsIffDecomposed ==
    \A t \in Nodes : kind[t] = "Task" => ((Len(commands[t]) >= 1) <=> decomposed[t])

\* C10 amended: while `decomposed` is false the command list holds only commands added
\* by addCommand; it is empty when addCommand was not called.
C10_OnlyManualBeforeDecompose ==
    \A t \in Nodes :
       (kind[t] = "Task" /\ ~decomposed[t])
          => \A k \in 1..Len(commands[t]) : commands[t][k] = "addCommand"

\* a task with a manual command before decomposition, and a decomposed one with both kinds
C10_Witness ==
    /\ \E t \in Nodes : kind[t] = "Task" /\ ~decomposed[t] /\ Len(commands[t]) >= 1
    /\ \E t \in Nodes : kind[t] = "Task" /\ decomposed[t] /\ commands[t] = <<"addCommand", "decomposer">>
\* ------------------------------------------------------------------ C11
\* C11: a call of add, addNewTask or addNewTaskGroup on a graph whose root is a Task
\* raises GraphError and changes no object (no list of children, no parent link, no new
\* node); on a graph whose root is a TaskGroup the node passed or created is a child of
\* the root after the call, in the list of its class.
C11_RootTaskRejects ==
    [][call' # call =>
          IF kind[root] = "Task"
          THEN raised' = "GraphError" /\ UNCHANGED builderVars
          ELSE call'[2] # None =>
                 /\ raised' \in {"none", "AssertionError"}
                 /\ raised' = "AssertionError" =>
                       (InSeq(call'[2], tasks[root]) \/ InSeq(call'[2], taskGroups[root]))
                 /\ kind'[call'[2]] = "Task" => InSeq(call'[2], tasks'[root])
                 /\ kind'[call'[2]] = "TaskGroup" => InSeq(call'[2], taskGroups'[root])
                 /\ kind'[call'[2]] # "none"]_vars

\* add was refused on a Task root although a constructed Task was passed
C11_Witness ==
    /\ kind[root] = "Task"
    /\ raised = "GraphError"
    /\ call # <<>> /\ call[1] = "add" /\ call[2] # None /\ kind[call[2]] = "Task"
    /\ \A n \in Nodes : tasks[n] = <<>> /\ taskGroups[n] = <<>>
\* ------------------------------------------------------------------ C12
IsAddEdges == call' # call /\ call'[1] = "addEdges"

StatusOf(edge) == IF edge.len = 2 THEN <<DONE>> ELSE edge.third.val

\* the nodes that no element of the list names as dst keep their dependencies
OthersUnchanged(pEdgeList) ==
    \A n \in Nodes :
       (\A i \in 1..Len(pEdgeList) : pEdgeList[i].dst # n) => dependencies'[n] = dependencies[n]

\* C12: after a successful addEdges(list), for each element (src, dst) or
\* (src, dst, statusSet) the node dst depends on src with the given statusSet, or with
\* [DONE] when none was given; the dependencies of the nodes that are not the dst of any
\* element are unchanged.
C12_EdgesAdded ==
    [][(IsAddEdges /\ raised' = "none") =>
          LET pEdgeList == call'[2]
          IN /\ \A i \in 1..Len(pEdgeList) :
                   /\ pEdgeList[i].src \in DOMAIN dependencies'[pEdgeList[i].dst]
                   /\ dependencies'[pEdgeList[i].dst][pEdgeList[i].src] = StatusOf(pEdgeList[i])
             /\ OthersUnchanged(pEdgeList)]_vars

\* C12 amended: after a successful addEdges(list), for each element the node dst depends
\* on src, with the status list of the last element of the list that names the same
\* (src, dst) ([DONE] when that element gives none); a dst keeps its dependencies on the
\* nodes no element names as its src, and the nodes that are not the dst of any element
\* keep all their dependencies.
C12_LastEdgeWins ==
    [][(IsAddEdges /\ raised' = "none") =>
          LET pEdgeList == call'[2]
              Later(i) == \E j \in (i + 1)..Len(pEdgeList) :
                             /\ pEdgeList[j].src = pEdgeList[i].src
                             /\ pEdgeList[j].dst = pEdgeList[i].dst
          IN /\ \A i \in 1..Len(pEdgeList) :
                   /\ pEdgeList[i].src \in DOMAIN dependencies'[pEdgeList[i].dst]
                   /\ ~Later(i) =>
                        dependencies'[pEdgeList[i].dst][pEdgeList[i].src] = StatusOf(pEdgeList[i])
             /\ \A n, m \in Nodes :
                   (\A i \in 1..Len(pEdgeList) : ~(pEdgeList[i].dst = n /\ pEdgeList[i].src = m))
                      => /\ (m \in DOMAIN dependencies'[n]) = (m \in DOMAIN dependencies[n])
                         /\ m \in DOMAIN dependencies[n] => dependencies'[n][m] = dependencies[n][m]
             /\ OthersUnchanged(pEdgeList)]_vars

\* a successful call whose list names one (src, dst) twice with two status lists, made
\* on a graph that already had an edge into another node
C12_Witness ==
    /\ call # <<>> /\ call[1] = "addEdges" /\ raised = "none"
    /\ Len(call[2]) = 2
    /\ call[2][1].src = call[2][2].src /\ call[2][1].dst = call[2][2].dst
    /\ StatusOf(call[2][1]) # StatusOf(call[2][2])
    /\ \E n \in Nodes : n # call[2][1].dst /\ dependencies[n] # EmptyDict

\* ------------------------------------------------------------------ C13
Malformed(edge) ==
    \/ edge.len \notin {2, 3}
    \/ edge.len = 3 /\ edge.third.type \notin {"set", "list"}

\* C13: addEdges raises ConnectionError exactly when some element of the list has a length
\* other than 2 or 3 or a third component that is neither a set nor a list; a status set
\* given as a set is accepted like one given as a list.
C13_FailsExactlyOnMalformed ==
    [][IsAddEdges =>
          (raised' = "ConnectionError" <=> \E i \in 1..Len(call'[2]) : Malformed(call'[2][i]))]_vars
\* ------------------------------------------------------------------ C14
RenderNodeId(e) == IF e.renderNode # "none" THEN mem[e.renderNode].id ELSE NULL

CommandAgrees(k) ==
    /\ mem[k].id \in DOMAIN db.Commands
    /\ db.Commands[mem[k].id].status = mem[k].status
    /\ db.Commands[mem[k].id].completion = mem[k].completion
    /\ db.Commands[mem[k].id].message = mem[k].message
    /\ db.Commands[mem[k].id].assignedRNId = RenderNodeId(mem[k])

NodeAgrees(k, table) ==
    /\ mem[k].id \in DOMAIN db[table]
    /\ db[table][mem[k].id].dispatchKey = mem[k].dispatchKey
    /\ db[table][mem[k].id].maxRN = mem[k].maxRN

PoolShareAgrees(k) ==
    /\ mem[k].id \in DOMAIN db.PoolShares
    /\ db.PoolShares[mem[k].id].maxRN = mem[k].maxRN

\* C14: when no mutation is pending after a flush (updateElements applied to every
\* modified element), each stored row agrees with its in-memory entity: a command on
\* status, completion, message and render-node assignment, a node on dispatchKey and
\* maxRN, a pool share on maxRN.
C14_FlushAgrees ==
    (mem # <<>> /\ toModify = {})
        => /\ \A k \in EKeys : mem[k].class = "Command" => CommandAgrees(k)
           /\ \A k \in EKeys : mem[k].class = "TaskNode" => NodeAgrees(k, "TaskNodes")
           /\ \A k \in EKeys : mem[k].class = "FolderNode" => NodeAgrees(k, "FolderNodes")
           /\ \A k \in EKeys : mem[k].class = "PoolShare" => PoolShareAgrees(k)

\* ------------------------------------------------------------------ C15
\* C15: a createElements, updateElements or archiveElements batch is all-or-nothing:
\* a call that fails leaves the store as it was before the call
C15_AllOrNothing ==
    [][raised' # "none" => db' = db]_vars


\* ------------------------------------------------------------------ C19
\* the tables with an `archived` column: rows by primary key, and rows in insertion order
ArchivedById == {"FolderNodes", "TaskNodes", "TaskGroups", "Tasks", "Commands", "Pools",
                 "PoolShares"}

ArchivedByRank == {"Dependencies", "Arguments"}

\* C19: a row whose archived flag is true is still there with the flag true after any
\* createElements, updateElements or archiveElements call
C19_ArchivedMonotone ==
    [][/\ \A t \in ArchivedById : \A i \in DOMAIN db[t] :
            db[t][i].archived => i \in DOMAIN db'[t] /\ db'[t][i].archived
       /\ \A t \in ArchivedByRank : \A i \in 1..Len(db[t]) :
            db[t][i].archived => i <= Len(db'[t]) /\ db'[t][i].archived]_vars

\* createElements or updateElements has just been called on a batch whose command was
\* archived before
C19_Witness ==
    /\ call # <<>>
    /\ call[1] \in {"createElements", "updateElements"}
    /\ call[2] = <<"t", "c">>
    /\ 1 \in DOMAIN db.Commands
    /\ db.Commands[1].archived
    /\ \E i \in 1..Len(db.Arguments) : db.Arguments[i].archived

\* ------------------------------------------------------------------ C20
\* C20: archiveElements removes no row: every row of every table that exists before the
\* call exists after it
C20_ArchiveKeepsRows ==
    [][(call' # <<>> /\ call'[1] = "archiveElements")
         => /\ \A t \in KeyedTables : DOMAIN db[t] \subseteq DOMAIN db'[t]
            /\ \A t \in DOMAIN db \ KeyedTables : Len(db[t]) <= Len(db'[t])]_vars


\* ------------------------------------------------------------------ C16
\* C16: a restoreStateFromDb that fails leaves the dispatch tree it was given exactly as
\* it was before the call
C16_FailedRestoreKeepsTree ==
    [][(call' # <<>> /\ call'[1] = "restoreStateFromDb" /\ raised' # "none")
         => tree' = tree]_vars


\* ------------------------------------------------------------------ C17
\* the table that stores entity k, and whether its row is there and not archived
TableOf(k) ==
    CASE mem[k].class = "TaskGroup" -> "TaskGroups" [] mem[k].class = "Task" -> "Tasks"
      [] mem[k].class = "FolderNode" -> "FolderNodes" [] mem[k].class = "TaskNode" -> "TaskNodes"
      [] mem[k].class = "Command" -> "Commands" [] mem[k].class = "Pool" -> "Pools"
      [] mem[k].class = "PoolShare" -> "PoolShares" [] OTHER -> "RenderNodes"

LiveRow(k) ==
    /\ mem[k].id \in DOMAIN db[TableOf(k)]
    /\ ~db[TableOf(k)][mem[k].id].archived

\* the arguments of an entity as a dictionary
ArgumentDict(k) ==
    [n \in {mem[k].arguments[i][1] : i \in 1..Len(mem[k].arguments)} |->
        LET i == CHOOSE i \in 1..Len(mem[k].arguments) : mem[k].arguments[i][1] = n
        IN mem[k].arguments[i][2]]

SameAttributes(o, k) ==
    /\ o.name = mem[k].name
    /\ o.user = mem[k].user
    /\ o.priority = mem[k].priority
    /\ o.dispatchKey = mem[k].dispatchKey
    /\ o.maxRN = mem[k].maxRN

\* C17: after a restore that succeeds, every non-archived TaskGroup, Task, node and
\* command is in the tree under its id with the name, user, priority, dispatchKey and
\* maxRN that createElements wrote for it, its dependency edges (target, status list),
\* its argument values, and for a command the stored status
C17_RoundTrip ==
    (Restored /\ raised = "none")
        => \A k \in EKeys :
             /\ (mem[k].class \in {"TaskGroup", "Task"} /\ LiveRow(k))
                  => /\ mem[k].id \in DOMAIN tree.tasks
                     /\ tree.tasks[mem[k].id].class = mem[k].class
                     /\ SameAttributes(tree.tasks[mem[k].id], k)
                     /\ tree.tasks[mem[k].id].arguments = ArgumentDict(k)
             /\ (mem[k].class \in {"FolderNode", "TaskNode"} /\ LiveRow(k))
                  => /\ mem[k].id \in DOMAIN tree.nodes
                     /\ tree.nodes[mem[k].id].class = mem[k].class
                     /\ SameAttributes(tree.nodes[mem[k].id], k)
                     /\ tree.nodes[mem[k].id].dependencies =
                          [i \in 1..Len(mem[k].dependencies) |->
                             <<mem[mem[k].dependencies[i][1]].id, mem[k].dependencies[i][2]>>]
             /\ (mem[k].class = "Command" /\ LiveRow(k))
                  => /\ mem[k].id \in DOMAIN tree.commands
                     /\ tree.commands[mem[k].id].status = db.Commands[mem[k].id].status
                     /\ tree.commands[mem[k].id].arguments = ArgumentDict(k)

\* ------------------------------------------------------------------ C18
AtLeast(maxId, S) == \A i \in S : i <= maxId

\* C18: after a restore that succeeds, every allocator is at least the largest id of its
\* kind in the store, archived rows included, and at least every id under which the
\* restored tree holds an entity of that id space
C18_AllocatorsAboveIds ==
    (Restored /\ raised = "none")
        => /\ AtLeast(tree.nodeMaxId,
                      DOMAIN db.FolderNodes \cup DOMAIN db.TaskNodes \cup DOMAIN tree.nodes)
           /\ AtLeast(tree.taskMaxId,
                      DOMAIN db.Tasks \cup DOMAIN db.TaskGroups \cup DOMAIN tree.tasks)
           /\ AtLeast(tree.commandMaxId, DOMAIN db.Commands \cup DOMAIN tree.commands)
           /\ AtLeast(tree.poolMaxId,
                      DOMAIN db.Pools \cup {tree.pools[n].id : n \in DOMAIN tree.pools})
           /\ AtLeast(tree.renderNodeMaxId,
                      DOMAIN db.RenderNodes
                        \cup {tree.renderNodes[n].id : n \in DOMAIN tree.renderNodes})
           /\ AtLeast(tree.poolShareMaxId, DOMAIN db.PoolShares \cup DOMAIN tree.poolShares)


\* ------------------------------------------------------------------ C21
\* ids of the render nodes the restore had at hand: those of the tree when they were
\* loaded before the call, else those of the store
LoadedRenderNodeIds ==
    IF call[2] THEN {tree.renderNodes[n].id : n \in DOMAIN tree.renderNodes}
    ELSE DOMAIN db.RenderNodes

\* C21: a restore that completes leaves no command RUNNING, DONE or ERROR without a render
\* node, and a non-archived command row in one of these statuses whose assignedRNId is
\* not a loaded render node makes the restore fail
C21_FinishedCommandHasRenderNode ==
    Restored
        => /\ raised = "none"
                => \A i \in DOMAIN tree.commands :
                      tree.commands[i].status \in {RUNNING, DONE, ERROR}
                          => tree.commands[i].renderNode # NULL
           /\ (\E i \in DOMAIN db.Commands :
                  /\ ~db.Commands[i].archived
                  /\ db.Commands[i].status \in {RUNNING, DONE, ERROR}
                  /\ db.Commands[i].assignedRNId \notin LoadedRenderNodeIds)
                => raised # "none"

\* the restore met a RUNNING command row without render node and stopped on the assert
C21_Witness ==
    /\ Restored
    /\ raised = "AssertionError"
    /\ db.Commands[1].status = RUNNING
    /\ db.Commands[1].assignedRNId = NULL


\* ------------------------------------------------------------------ C22
\* the owner columns of an Arguments row that are not NULL
OwnerColumns(r) == {c \in {"commandId", "taskId", "taskGroupId"} : r[c] # NULL}

\* the arguments the non-archived rows give to the owner that column names by id
StoredArguments(column, id) ==
    LET rows == SelectSeq(db.Arguments, LAMBDA r : ~r.archived /\ r[column] = id)
    IN [n \in {rows[i].name : i \in 1..Len(rows)} |->
          LET last == CHOOSE i \in 1..Len(rows) :
                         /\ rows[i].name = n
                         /\ \A j \in 1..Len(rows) : rows[j].name = n => j <= i
          IN rows[last].value]

\* C22: every Arguments row names exactly one owner (command, task or task group), and
\* after a restore that completes each restored command, task and task group holds the
\* arguments of the non-archived rows that name it, and no others
C22_OneOwner ==
    /\ \A i \in 1..Len(db.Arguments) : Cardinality(OwnerColumns(db.Arguments[i])) = 1
    /\ (Restored /\ raised = "none")
         => /\ \A i \in DOMAIN tree.commands :
                 tree.commands[i].arguments = StoredArguments("commandId", i)
            /\ \A i \in DOMAIN tree.tasks :
                 tree.tasks[i].arguments =
                     StoredArguments(IF tree.tasks[i].class = "Task" THEN "taskId"
                                     ELSE "taskGroupId", i)

\* a restore completed on a store with an Arguments row for a command, one for a task and
\* one for a task group
C22_Witness ==
    /\ Restored
    /\ raised = "none"
    /\ \A c \in {"commandId", "taskId", "taskGroupId"} :
          \E i \in 1..Len(db.Arguments) : db.Arguments[i][c] # NULL
    /\ \E i \in DOMAIN tree.commands : tree.commands[i].arguments # EmptyDict
    /\ \E i \in DOMAIN tree.tasks : tree.tasks[i].arguments # EmptyDict


\* ------------------------------------------------------------------ C23
\* the Tasks of a batch
TasksOf(batch) == {batch[i] : i \in {j \in 1..Len(batch) : mem[batch[j]].class = "Task"}}

\* C23: createElements writes a batch class by class, Tasks before Arguments and Rules:
\* whenever a call has written a Rules or an Arguments row, the Tasks rows of all the
\* tasks of its batch are in the store
C23_TasksBeforeRulesAndArguments ==
    [][(/\ call' # <<>>
        /\ call'[1] = "createElements"
        /\ \/ Len(db'.Rules) > Len(db.Rules)
           \/ Len(db'.Arguments) > Len(db.Arguments))
         => \A k \in TasksOf(call'[2]) : mem[k].id \in DOMAIN db'.Tasks]_vars


\* ------------------------------------------------------------------ C27
\* the ids a list of entity keys names
IdsOf(keys) == {mem[keys[i]].id : i \in 1..Len(keys)}

NoDuplicate(seq) == \A i, j \in 1..Len(seq) : seq[i] = seq[j] => i = j

TargetInStatusList(d) ==
    /\ repr.tasks[d[1] + 1].type = "Task"
    /\ CommandStatuses(d[1]) # {}
    /\ InSeq(Rollup(CommandStatuses(d[1])), d[2])

\* C24: when execute returns without interruption, every command still BLOCKED has a
\* dependency edge whose target status is not in the status list of the edge
C24_BlockedHasUnsatisfiedEdge ==
    (pc = "returned" /\ ~interrupted)
        => \A c \in 1..Len(executionList) :
              executionList[c].status = BLOCKED
                 => \E k \in 1..Len(executionList[c].dependencies) :
                       ~TargetInStatusList(executionList[c].dependencies[k])


\* ------------------------------------------------------------------ C25
\* the step that ends a pass of the loop: the dependency re-evaluation
EndOfPass == pc = "loop" /\ NextReady = 0

Promoted(c) == executionList[c].status = BLOCKED /\ executionList'[c].status = READY

\* C25: execute terminates once its loop has started; a pass that does not end the loop
\* promotes at least one BLOCKED command to READY, and the loop ends at the pass whose
\* re-evaluation promotes none, and at no pass that promotes, whatever stays BLOCKED
C25_LoopTerminates ==
    /\ (pc = "loop") ~> (pc \in {"returned", "raised"})
    /\ [][EndOfPass
            => /\ pc' = "loop" => \E c \in 1..Len(executionList) : Promoted(c)
               /\ (\A c \in 1..Len(executionList) : ~Promoted(c)) <=> pc' = "returned"]_vars

\* execute has returned after a pass that promoted and ran a command, with another
\* command still BLOCKED
C25_Witness ==
    /\ pc = "returned"
    /\ ~interrupted
    /\ \E c \in 1..Len(executionList) : executionList[c].status = BLOCKED
    /\ \E c \in 1..Len(executionList) :
          executionList[c].dependencies # <<>> /\ executionList[c].status = DONE


\* ------------------------------------------------------------------ C26
\* number of positions of the child lists of the TaskGroup entries of T that hold index i
ChildOccurrences(T, i) ==
    Cardinality({<<p, k>> \in (1..Len(T)) \X (1..Len(T)) :
                    /\ T[p].type = "TaskGroup"
                    /\ k <= Len(T[p].tasks)
                    /\ T[p].tasks[k] = i})

\* C26: in a serialized representation every entry of tasks other than the root is in the
\* child list of exactly one TaskGroup entry, exactly once
C26_ExactlyOneParent ==
    (phase = "prepared" /\ raised = "none")
        => \A i \in 0..(Len(repr.tasks) - 1) :
              i # repr.root => ChildOccurrences(repr.tasks, i) = 1


\* ------------------------------------------------------------------ C28
\* C28: restoreStateFromDb raises nothing on a store made by createElements,
\* updateElements and archiveElements
C28_RestoreSucceeds == Restored => raised = "none"


\* ------------------------------------------------------------------ C29
Final == {DONE, ERROR, CANCELED}

\* the status changes a command may make in one step
StatusMove(old, new) ==
    \/ new = old
    \/ old = BLOCKED /\ new = READY
    \/ old = READY /\ new \in Final

\* C29: while execute runs, a command is handed to execNode at most once and only when it
\* is READY, its status moves BLOCKED -> READY -> DONE, ERROR or CANCELED only, and a
\* command that has been run is neither run again nor changed
C29_RunOnce ==
    [][pc = "loop"
          => \A c \in 1..Len(executionList) :
                /\ StatusMove(executionList[c].status, executionList'[c].status)
                /\ nbRuns'[c] <= 1
                /\ nbRuns'[c] # nbRuns[c] => executionList[c].status = READY
                /\ executionList[c].status \in Final
                      => nbRuns[c] = 1 /\ executionList'[c] = executionList[c]]_vars

\* execute has returned; a command that started BLOCKED was promoted and run once, and
\* the command it depends on, run once in an earlier pass, kept its status through the
\* later dependency checks
C29_Witness ==
    /\ pc = "returned"
    /\ \E c, t \in 1..Len(executionList) :
          /\ c # t
          /\ executionList[c].dependencies # <<>>
          /\ executionList[c].status \in Final
          /\ nbRuns[c] = 1
          /\ executionList[t].taskid = executionList[c].dependencies[1][1]
          /\ executionList[t].dependencies # <<>>
          /\ executionList[t].status = ERROR
          /\ nbRuns[t] = 1


\* ------------------------------------------------------------------ C30
Acyclic == \A m \in Nodes : ~DependsOnItself(m)

\* C30: when no node reaches itself along dependency edges, the cycle check raises nothing
\* and prepareGraphRepresentation returns a representation
C30_NoFalsePositive ==
    (phase = "prepared" /\ Acyclic) => (raised = "none" /\ repr # NoRepr)

\* a prepared diamond: a depends on b and c, which both depend on d
C30_Witness ==
    /\ phase = "prepared"
    /\ raised = "none"
    /\ repr # NoRepr
    /\ \E a, b, c, d \in Nodes :
          /\ Cardinality({a, b, c, d}) = 4
          /\ {b, c} \subseteq DOMAIN dependencies[a]
          /\ d \in DOMAIN dependencies[b] \cap DOMAIN dependencies[c]

====
